---- MODULE Spec2Model ----
(***************************************************************************)
(* Model of the Adaptive Session Planning & Memory subsystem of ATIC:      *)
(*   - SessionManager (src/sessions/session_manager.py): the in-memory     *)
(*     active_sessions map and session_history list and the operations     *)
(*     initialize_session, update_session_status,                          *)
(*     record_agent_interaction and finalize_session;                      *)
(*   - MemoryBank (src/memory/memory_bank.py): the SQLite tables           *)
(*     user_profiles, sessions and performance_metrics as seen through the *)
(*     one shared connection (db), and what has been committed             *)
(*     (committed).                                                        *)
(*                                                                         *)
(* Python dicts are functions from string keys; dict.get, item assignment  *)
(* and dict.update are Get, Put and Update.  Timestamps are readings of    *)
(* the logical clock now.  Scores are in hundredths (70 is 0.70).          *)
(***************************************************************************)
EXTENDS Integers, Sequences, FiniteSets, TLC

VARIABLES
    active_sessions,   \* SessionManager.active_sessions: session_id -> session dict
    session_history,   \* SessionManager.session_history: list of session dicts
    next_id,           \* number of session ids generated so far
    db,                \* the tables as the shared connection sees them
    committed,         \* the tables as of the last successful commit()
    now,               \* the next reading of datetime.now()
    ret                \* the last call: its name, argument and returned value,
                       \* whether it met a storage failure (fault), what the
                       \* store's writing calls made during it returned
                       \* (stored) and which of them met a failure (failed)

\* The call's name and argument come first: two calls are told apart by
\* them before their returned values, which differ in kind, are compared.
vars == <<ret.op, ret.arg, active_sessions, session_history, next_id, db,
          committed, now, ret>>

(***************************************************************************)
(* Bounds of the model.                                                    *)
(***************************************************************************)
MaxSessions == 1       \* session ids generated
MaxTime == 1           \* readings of the clock are 0..MaxTime
MaxInteractions == 1   \* interaction records over all sessions
MaxMetrics == 2        \* performance_metrics rows inserted under SpecStore
MaxRows == 3           \* performance_metrics rows inserted under SpecTables

(***************************************************************************)
(* Python dicts and lists.                                                 *)
(***************************************************************************)
EmptyDict == [k \in {} |-> 0]

Has(d, k) == k \in DOMAIN d

Get(d, k, default) == IF k \in DOMAIN d THEN d[k] ELSE default

Put(d, k, v) == (k :> v) @@ d

Update(d, e) == e @@ d

Truthy(d) == DOMAIN d # {}

\* F(v), with v evaluated once before F uses it: an assignment to a local.
Local(v, F(_)) == CHOOSE y \in {F(x) : x \in {v}} : TRUE

Concat(seqs) ==
    LET RECURSIVE cat(_)
        cat(i) == IF i > Len(seqs) THEN <<>> ELSE seqs[i] \o cat(i + 1)
    IN cat(1)

Range(s) == {s[i] : i \in DOMAIN s}

Take(s, n) == SubSeq(s, 1, IF Len(s) < n THEN Len(s) ELSE n)

Drop(s, n) == SubSeq(s, n + 1, Len(s))

SumSeq(s) ==
    LET RECURSIVE sum(_)
        sum(i) == IF i > Len(s) THEN 0 ELSE s[i] + sum(i + 1)
    IN sum(1)

AnyIn(keywords, jd_lower) == \E i \in DOMAIN keywords : keywords[i] \in jd_lower

Found(keywords, jd_lower) == SelectSeq(keywords, LAMBDA k : k \in jd_lower)

(***************************************************************************)
(* Step 1: _gather_experience_assessment and its helpers.                  *)
(* years_input is the number typed; a negative number stands for any       *)
(* input that str.isdigit rejects.  entries[i] is what the user types for  *)
(* the i-th skill: 0 for a blank line, 1..5 for a rating (out-of-range and *)
(* non-numeric answers are asked again and leave no trace).                *)
(***************************************************************************)
_get_skill_areas_for_field(field) ==
    CASE field = "front-end" ->
           <<"JavaScript/TypeScript", "React/Vue/Angular", "CSS/Styling", "Web Performance", "Testing">>
      [] field = "back-end" ->
           <<"System Design", "Database Design", "API Development", "Scalability", "Security">>
      [] field = "full-stack" ->
           <<"Frontend Development", "Backend Development", "Database Design", "System Architecture", "DevOps">>
      [] field = "data science" ->
           <<"Machine Learning", "Statistics", "Python/R", "Data Processing", "Visualization">>
      [] field = "devops" ->
           <<"Infrastructure", "CI/CD", "Monitoring", "Cloud Platforms", "Automation">>
      [] field = "mobile" ->
           <<"iOS/Android Development", "Mobile UI/UX", "Performance", "Testing", "App Store">>
      [] field = "qa" ->
           <<"Test Automation", "Manual Testing", "Performance Testing", "Security Testing", "Tools">>
      [] OTHER ->
           <<"Problem Solving", "Algorithms", "Data Structures", "System Design", "Communication">>

\* Buckets with the thresholds on the other side: 2 years is mid, 5 senior.
CategorizeStrict(years) ==
    IF years < 2 THEN "junior"
    ELSE IF years < 5 THEN "mid"
    ELSE "senior"

_categorize_experience_level(years) ==
    IF years <= 2 THEN "junior"
    ELSE IF years <= 5 THEN "mid"
    ELSE "senior"

\* The loop of lines 145-161: a blank entry stores the default 3; a rating in
\* 1..5 leaves the loop by the break of line 154, before line 158 stores it.
SelfAssessment(skill_areas, entries) ==
    LET shown == Take(skill_areas, 5)
        kept == {i \in DOMAIN shown : entries[i] = 0}
    IN [skill \in {shown[i] : i \in kept} |-> 3]

_gather_experience_assessment(years_input, technical_field, current_role, entries) ==
    LET years_experience == IF years_input >= 0 THEN years_input ELSE 0
        skill_areas == _get_skill_areas_for_field(technical_field)
    IN [years |-> years_experience,
        field |-> technical_field,
        current_role |-> current_role,
        company_size |-> "",
        previous_interviews |-> "",
        self_assessment |-> SelfAssessment(skill_areas, entries),
        proficiency_areas |-> skill_areas,
        experience_level |-> _categorize_experience_level(years_experience)]

(***************************************************************************)
(* Step 2: _gather_job_description_analysis.  A job description is         *)
(* abstracted to [blank, contains]: whether it is empty or whitespace, and *)
(* the set of the extractor's keywords that occur in its lower-cased text  *)
(* as substrings (so its length is not represented).                       *)
(***************************************************************************)
Description(contains) == [blank |-> FALSE, contains |-> contains]

BlankDescription == [blank |-> TRUE, contains |-> {}]

\* "Generic <role> position requiring technical skills and problem-solving
\* abilities.": the template holds no keyword, so only the role's count.
GenericDescription(role_contains) == Description(role_contains)

_gather_job_description_analysis(target_company, target_role, role_contains, job_description, t) ==
    [company |-> target_company,
     role |-> target_role,
     description |-> IF job_description.blank
                     THEN GenericDescription(role_contains)
                     ELSE job_description,
     timeline |-> "",
     collected_at |-> t]

(***************************************************************************)
(* Step 3: _perform_context_engineering.                                   *)
(***************************************************************************)
technical_keywords ==
    << <<"python", "javascript", "java", "c++", "c#", "go", "rust", "typescript", "php", "ruby">>,
       <<"react", "angular", "vue", "django", "flask", "spring", "express", "laravel", "rails">>,
       <<"sql", "mysql", "postgresql", "mongodb", "redis", "elasticsearch", "dynamodb">>,
       <<"aws", "azure", "gcp", "google cloud", "docker", "kubernetes", "terraform">>,
       <<"git", "jenkins", "ci/cd", "microservices", "api", "rest", "graphql">> >>

seniority_indicators ==
    << [level |-> "senior",
        indicators |-> <<"senior", "lead", "principal", "architect", "5+ years", "mentor", "leadership">>],
       [level |-> "mid",
        indicators |-> <<"mid-level", "3-5 years", "experienced", "solid experience">>],
       [level |-> "junior",
        indicators |-> <<"junior", "entry-level", "0-2 years", "new graduate", "recent graduate">>] >>

responsibility_keywords ==
    << [category |-> "system_design",
        keywords |-> <<"system design", "architecture", "scalable", "distributed", "microservices">>],
       [category |-> "coding",
        keywords |-> <<"coding", "programming", "development", "implementation", "algorithms">>],
       [category |-> "collaboration",
        keywords |-> <<"collaborate", "team", "cross-functional", "communication">>],
       [category |-> "leadership",
        keywords |-> <<"mentor", "lead", "guide", "technical leadership">>] >>

_get_default_extraction_template ==
    [required_technical_skills |-> <<"Problem Solving", "Programming", "System Design">>,
     preferred_skills |-> <<"Communication", "Teamwork">>,
     seniority_indicators |-> <<"mid-level">>,
     responsibility_categories |-> <<"coding", "collaboration">>,
     technology_stack |-> <<"General Programming">>,
     soft_skills |-> <<"Communication">>,
     interview_focus_areas |-> <<"coding_problems", "technical_knowledge">>,
     complexity_level |-> "intermediate"]

\* A loop without the break: the last indicator group with a match wins.
LastGroup(jd_lower) ==
    LET hits == {i \in DOMAIN seniority_indicators :
                    AnyIn(seniority_indicators[i].indicators, jd_lower)}
    IN IF hits = {} THEN 0 ELSE CHOOSE i \in hits : \A j \in hits : i >= j

\* The index of the first indicator group with a match, 0 when none matches.
WinningGroup(jd_lower) ==
    LET hits == {i \in DOMAIN seniority_indicators :
                    AnyIn(seniority_indicators[i].indicators, jd_lower)}
    IN IF hits = {} THEN 0 ELSE CHOOSE i \in hits : \A j \in hits : i <= j

DetectedSeniority(jd_lower) ==
    IF WinningGroup(jd_lower) = 0 THEN "mid"
    ELSE seniority_indicators[WinningGroup(jd_lower)].level

ResponsibilityCategories(jd_lower) ==
    LET matched == SelectSeq(responsibility_keywords,
                             LAMBDA r : AnyIn(r.keywords, jd_lower))
    IN [i \in DOMAIN matched |-> matched[i].category]

\* Focus areas that fall back to general_technical when no responsibility
\* matched, whatever the technology stack.
FocusAreasByResponsibility(technology_stack, responsibility_categories) ==
    LET focus_areas ==
            (IF technology_stack # <<>> THEN <<"technical_knowledge">> ELSE <<>>)
         \o (IF "coding" \in Range(responsibility_categories)
             THEN <<"coding_problems">> ELSE <<>>)
         \o (IF "system_design" \in Range(responsibility_categories)
             THEN <<"system_design">> ELSE <<>>)
         \o (IF "leadership" \in Range(responsibility_categories)
             THEN <<"behavioral_leadership">> ELSE <<>>)
    IN IF responsibility_categories # <<>> THEN focus_areas
       ELSE focus_areas \o <<"general_technical">>

FocusAreas(technology_stack, responsibility_categories) ==
    LET focus_areas ==
            (IF technology_stack # <<>> THEN <<"technical_knowledge">> ELSE <<>>)
         \o (IF "coding" \in Range(responsibility_categories)
             THEN <<"coding_problems">> ELSE <<>>)
         \o (IF "system_design" \in Range(responsibility_categories)
             THEN <<"system_design">> ELSE <<>>)
         \o (IF "leadership" \in Range(responsibility_categories)
             THEN <<"behavioral_leadership">> ELSE <<>>)
    IN IF focus_areas # <<>> THEN focus_areas ELSE <<"general_technical">>

\* A rule that looks at a junior wording first.
ComplexityJuniorFirst(detected_seniority, responsibility_categories) ==
    IF detected_seniority = "junior" THEN "beginner"
    ELSE IF detected_seniority = "senior" \/ Len(responsibility_categories) > 3
    THEN "advanced"
    ELSE "intermediate"

ComplexityLevel(detected_seniority, responsibility_categories) ==
    IF detected_seniority = "senior" \/ Len(responsibility_categories) > 3
    THEN "advanced"
    ELSE IF detected_seniority = "junior" THEN "beginner"
    ELSE "intermediate"

_perform_context_engineering(job_description) ==
    IF job_description.blank THEN _get_default_extraction_template
    ELSE
      LET jd_lower == job_description.contains
          technology_stack ==
              Concat([i \in DOMAIN technical_keywords |->
                         Found(technical_keywords[i], jd_lower)])
          detected_seniority == DetectedSeniority(jd_lower)
          responsibility_categories == ResponsibilityCategories(jd_lower)
      IN [required_technical_skills |-> Take(technology_stack, 6),
          preferred_skills |-> Drop(technology_stack, 6),
          seniority_indicators |->
              IF WinningGroup(jd_lower) = 0 THEN <<>>
              ELSE Found(seniority_indicators[WinningGroup(jd_lower)].indicators, jd_lower),
          responsibility_categories |-> responsibility_categories,
          technology_stack |-> technology_stack,
          soft_skills |-> <<>>,
          interview_focus_areas |-> FocusAreas(technology_stack, responsibility_categories),
          complexity_level |-> ComplexityLevel(detected_seniority, responsibility_categories)]

(***************************************************************************)
(* Step 4: _create_adaptive_interview_plan and its helpers.                *)
(***************************************************************************)
\* A rule that looks at the user first: only a junior user starts at beginner.
InitialDifficultyByUser(experience_data, extracted_skills) ==
    LET user_level == experience_data.experience_level
        job_complexity == Get(extracted_skills, "complexity_level", "intermediate")
    IN IF user_level = "senior" /\ job_complexity = "advanced" THEN "advanced"
       ELSE IF user_level = "junior" THEN "beginner"
       ELSE "intermediate"

_calculate_initial_difficulty(experience_data, extracted_skills) ==
    LET user_level == experience_data.experience_level
        job_complexity == Get(extracted_skills, "complexity_level", "intermediate")
    IN IF user_level = "senior" /\ job_complexity = "advanced" THEN "advanced"
       ELSE IF user_level = "junior" \/ job_complexity = "beginner" THEN "beginner"
       ELSE "intermediate"

seniority_levels == [junior |-> 1, mid |-> 2, senior |-> 3]

_match_difficulty_to_gap(user_seniority, job_seniority) ==
    LET user_score == Get(seniority_levels, user_seniority, 2)
        job_score == Get(seniority_levels, job_seniority, 2)
    IN IF job_score > user_score THEN job_seniority ELSE user_seniority

\* avg_score / 5.0 as the fraction num/den; 0.5 is 1/2.
_calculate_confidence_score(experience_data) ==
    LET self_assessment == Get(experience_data, "self_assessment", EmptyDict)
        skills == DOMAIN self_assessment
        RECURSIVE total(_)
        total(S) == IF S = {} THEN 0
                    ELSE LET k == CHOOSE k \in S : TRUE
                         IN self_assessment[k] + total(S \ {k})
    IN IF ~Truthy(self_assessment) THEN [num |-> 1, den |-> 2]
       ELSE [num |-> total(skills), den |-> 5 * Cardinality(skills)]

category_mapping ==
    [coding_problems |-> {"algorithms", "data_structures", "problem_solving"},
     system_design |-> {"scalability", "architecture", "trade_offs"},
     technical_knowledge |-> {"concepts", "best_practices", "tools"},
     behavioral_leadership |-> {"leadership", "teamwork", "communication"},
     general_technical |-> {"algorithms", "concepts", "problem_solving"}]

\* list(set(categories)): the categories without duplicates; their order is
\* the set's and is not represented.
_map_focus_to_question_categories(focus_areas) ==
    UNION {Get(category_mapping, focus_areas[i], {"general"}) : i \in DOMAIN focus_areas}

Phase(phase, duration_minutes, question_count, difficulty) ==
    [phase |-> phase, duration_minutes |-> duration_minutes,
     question_count |-> question_count, difficulty |-> difficulty]

\* Phases with the behavioral phase only for a leadership focus.
PhasesByFocusOnly(user_seniority, job_seniority, focus_areas) ==
       (IF "coding_problems" \in Range(focus_areas)
        THEN <<Phase("coding_assessment", 30, 2,
                     _match_difficulty_to_gap(user_seniority, job_seniority))>>
        ELSE <<>>)
    \o (IF "system_design" \in Range(focus_areas)
        THEN <<Phase("system_design", 25, 1, job_seniority)>> ELSE <<>>)
    \o (IF "technical_knowledge" \in Range(focus_areas)
        THEN <<Phase("technical_concepts", 15, 3, user_seniority)>> ELSE <<>>)
    \o (IF "behavioral_leadership" \in Range(focus_areas)
        THEN <<Phase("behavioral", 10, 2, user_seniority)>> ELSE <<>>)

SessionPhases(user_seniority, job_seniority, focus_areas) ==
       (IF "coding_problems" \in Range(focus_areas)
        THEN <<Phase("coding_assessment", 30, 2,
                     _match_difficulty_to_gap(user_seniority, job_seniority))>>
        ELSE <<>>)
    \o (IF "system_design" \in Range(focus_areas)
        THEN <<Phase("system_design", 25, 1, job_seniority)>> ELSE <<>>)
    \o (IF "technical_knowledge" \in Range(focus_areas)
        THEN <<Phase("technical_concepts", 15, 3, user_seniority)>> ELSE <<>>)
    \o (IF "behavioral_leadership" \in Range(focus_areas)
           \/ user_seniority \in {"mid", "senior"}
        THEN <<Phase("behavioral", 10, 2, user_seniority)>> ELSE <<>>)

_create_adaptive_interview_plan(experience_data, job_data, extracted_skills) ==
    LET user_seniority == experience_data.experience_level
        job_seniority == Get(extracted_skills, "complexity_level", "intermediate")
        focus_areas == Get(extracted_skills, "interview_focus_areas", <<"general_technical">>)
        session_phases == SessionPhases(user_seniority, job_seniority, focus_areas)
    IN [session_structure |-> session_phases,
        question_categories |-> _map_focus_to_question_categories(focus_areas),
        difficulty_progression |-> EmptyDict,
        focus_areas |-> focus_areas,
        estimated_duration |->
            SumSeq([i \in DOMAIN session_phases |-> session_phases[i].duration_minutes]),
        adaptive_parameters |->
            [initial_difficulty |-> _calculate_initial_difficulty(experience_data, extracted_skills),
             adjustment_threshold |-> 30,
             max_difficulty_jumps |-> 1,
             personalization_factors |->
                 [experience_years |-> experience_data.years,
                  field_expertise |-> experience_data.field,
                  target_role_complexity |-> job_seniority,
                  self_assessed_confidence |-> _calculate_confidence_score(experience_data)]]]

(***************************************************************************)
(* MemoryBank.  The tables are                                             *)
(*   user_profiles:       user_id -> row        (user_id PRIMARY KEY)      *)
(*   sessions:            session_id -> row     (session_id PRIMARY KEY)   *)
(*   performance_metrics: a set of rows, each with its own metric_id       *)
(*   metric_seq:          the last AUTOINCREMENT metric_id handed out      *)
(* A statement acts on the connection's view at once; commit() makes the   *)
(* view the committed state.  No operation ever rolls back, and foreign    *)
(* keys are not enforced (SQLite's default).  Each operation returns       *)
(* [db, committed, ok] and, where it changes its argument in place, the    *)
(* argument as it leaves it.                                               *)
(***************************************************************************)
NULL == -1

EmptyTables ==
    [user_profiles |-> EmptyDict, sessions |-> EmptyDict,
     performance_metrics |-> {}, metric_seq |-> 0]

SessionId(n) == <<"atic", n>>

_generate_user_id(profile_data, t) ==
    <<"user", Get(Get(profile_data, "experience", EmptyDict), "field", "unknown"), t>>

\* A store that works on a copy: the caller's dict never gets its user_id.
WithoutUserId(profile_data, user_id) == profile_data

\* profile_data['user_id'] = user_id: the caller's dict is changed in place.
WithUserId(profile_data, user_id) == Put(profile_data, "user_id", user_id)

\* A store that writes a new row over the one the user has.
StoreReplacesRow(d, c, profile_data, t, fail) ==
    LET user_id == Get(profile_data, "user_id", _generate_user_id(profile_data, t))
        profile == WithUserId(profile_data, user_id)
        experience_data == Get(profile, "experience", EmptyDict)
        columns == [last_updated |-> t,
                    experience_years |-> Get(experience_data, "years", 0),
                    technical_field |-> Get(experience_data, "field", ""),
                    current_role |-> Get(experience_data, "current_role", ""),
                    skill_levels |-> Get(experience_data, "self_assessment", EmptyDict),
                    profile_data |-> profile]
        row == Put(columns, "created_at", t)
        written == [d EXCEPT !.user_profiles = Put(@, user_id, row)]
    IN CASE fail = "execute" ->
              [db |-> d, committed |-> c, ok |-> FALSE, profile_data |-> profile]
         [] fail = "commit" ->
              [db |-> written, committed |-> c, ok |-> FALSE, profile_data |-> profile]
         [] OTHER ->
              [db |-> written, committed |-> written, ok |-> TRUE, profile_data |-> profile]

\* fail: "none", "execute" (the SELECT or the write raises) or "commit".
store_user_profile(d, c, profile_data, t, fail) ==
    LET user_id == Get(profile_data, "user_id", _generate_user_id(profile_data, t))
        profile == WithUserId(profile_data, user_id)
        exists == user_id \in DOMAIN d.user_profiles
        experience_data == Get(profile, "experience", EmptyDict)
        columns == [last_updated |-> t,
                    experience_years |-> Get(experience_data, "years", 0),
                    technical_field |-> Get(experience_data, "field", ""),
                    current_role |-> Get(experience_data, "current_role", ""),
                    skill_levels |-> Get(experience_data, "self_assessment", EmptyDict),
                    profile_data |-> profile]
        row == IF exists
               THEN Update(d.user_profiles[user_id], columns)
               ELSE Put(columns, "created_at", t)
        written == [d EXCEPT !.user_profiles = Put(@, user_id, row)]
    IN CASE fail = "execute" ->
              [db |-> d, committed |-> c, ok |-> FALSE, profile_data |-> profile]
         [] fail = "commit" ->
              [db |-> written, committed |-> c, ok |-> FALSE, profile_data |-> profile]
         [] OTHER ->
              [db |-> written, committed |-> written, ok |-> TRUE, profile_data |-> profile]

\* fail: the SELECT raises; the except block returns None (EmptyDict).
get_user_profile(d, user_id, fail) ==
    IF ~fail /\ user_id \in DOMAIN d.user_profiles
    THEN Put(d.user_profiles[user_id].profile_data, "db_metadata",
             [created_at |-> d.user_profiles[user_id].created_at,
              last_updated |-> d.user_profiles[user_id].last_updated])
    ELSE EmptyDict

\* An update that stores the profile as it was read.
UpdateDropsUpdates(d, c, user_id, updates, t, fail_get, fail) ==
    LET current_profile == get_user_profile(d, user_id, fail_get)
    IN IF ~Truthy(current_profile)
       THEN [db |-> d, committed |-> c, ok |-> FALSE]
       ELSE LET stored == store_user_profile(d, c, Put(current_profile, "last_updated", t),
                                             t, fail)
            IN [db |-> stored.db, committed |-> stored.committed, ok |-> stored.ok]

\* fail_get is the failure of the nested get_user_profile, fail that of the
\* nested store_user_profile.  [db, committed, ok].
update_user_profile(d, c, user_id, updates, t, fail_get, fail) ==
    LET current_profile == get_user_profile(d, user_id, fail_get)
    IN IF ~Truthy(current_profile)
       THEN [db |-> d, committed |-> c, ok |-> FALSE]
       ELSE LET stored == store_user_profile(
                              d, c, Put(Update(current_profile, updates), "last_updated", t),
                              t, fail)
            IN [db |-> stored.db, committed |-> stored.committed, ok |-> stored.ok]

\* [db, committed, ok, profile_ok, session_data]: ok is the value returned,
\* profile_ok the value the nested store_user_profile returned, which the
\* code discards.
\* fail_profile is the failure of the nested store_user_profile, fail the
\* failure of the INSERT ("execute") or of the commit ("commit").  The INSERT
\* also raises when the session_id is already a key of sessions.
store_session_initialization(d, c, session_data, t, fail_profile, fail) ==
    Local(IF Truthy(Get(session_data, "user_profile", EmptyDict))
          THEN store_user_profile(d, c, session_data.user_profile, t, fail_profile)
          ELSE [db |-> d, committed |-> c, ok |-> TRUE, profile_data |-> EmptyDict],
          LAMBDA p :
            LET session_id == session_data.session_id
                user_profile == p.profile_data
                target_job == Get(user_profile, "target_job", EmptyDict)
                stored == IF Truthy(user_profile)
                          THEN Put(session_data, "user_profile", user_profile)
                          ELSE session_data
                user_id == Get(user_profile, "user_id", session_id)
                row == [user_id |-> user_id,
                        created_at |-> Get(stored, "created_at", t),
                        completed_at |-> NULL,
                        status |-> Get(stored, "status", "initialized"),
                        target_company |-> Get(target_job, "company", ""),
                        target_role |-> Get(target_job, "role", ""),
                        difficulty_level |-> Get(user_profile, "difficulty_level", "intermediate"),
                        session_data |-> stored]
                written == [p.db EXCEPT !.sessions = Put(@, session_id, row)]
            IN CASE fail = "execute" \/ session_id \in DOMAIN p.db.sessions ->
                      [db |-> p.db, committed |-> p.committed, ok |-> FALSE,
                       profile_ok |-> p.ok, session_data |-> stored]
                 [] fail = "commit" ->
                      [db |-> written, committed |-> p.committed, ok |-> FALSE,
                       profile_ok |-> p.ok, session_data |-> stored]
                 [] OTHER ->
                      [db |-> written, committed |-> written, ok |-> TRUE,
                       profile_ok |-> p.ok, session_data |-> stored])

\* UPDATE sessions SET completed_at, status = 'completed', session_data
\* WHERE session_id: no row is no error.
UpdateSessionCompleted(d, session_record) ==
    LET session_id == session_record.session_id
    IN IF session_id \in DOMAIN d.sessions
       THEN [d EXCEPT !.sessions[session_id] =
                 Update(@, [completed_at |-> session_record.timestamp,
                            status |-> "completed",
                            session_data |-> session_record])]
       ELSE d

\* An INSERT that loses the score.
InsertMetricNoScore(d, session_id, user_id, recorded_at, category, metric_name, metric_value) ==
    [d EXCEPT !.metric_seq = @ + 1,
              !.performance_metrics = @ \cup
                  {[metric_id |-> d.metric_seq + 1,
                    session_id |-> session_id,
                    user_id |-> user_id,
                    recorded_at |-> recorded_at,
                    category |-> category,
                    metric_name |-> metric_name,
                    metric_value |-> 0]}]

\* INSERT INTO performance_metrics (session_id, user_id, recorded_at,
\* category, metric_name, metric_value).
InsertMetric(d, session_id, user_id, recorded_at, category, metric_name, metric_value) ==
    [d EXCEPT !.metric_seq = @ + 1,
              !.performance_metrics = @ \cup
                  {[metric_id |-> d.metric_seq + 1,
                    session_id |-> session_id,
                    user_id |-> user_id,
                    recorded_at |-> recorded_at,
                    category |-> category,
                    metric_name |-> metric_name,
                    metric_value |-> metric_value]}]

\* category_scores is the list of the dict's (category, score) items in
\* insertion order.
CategoryScores(session_record) ==
    Get(Get(session_record, "performance_analysis", EmptyDict), "category_scores", <<>>)

\* The statements store_session_record executes for a record: 1 UPDATE,
\* one INSERT per category score, 1 INSERT of the overall score.
StatementCount(session_record) == Len(CategoryScores(session_record)) + 2

\* The view after the first n statements of store_session_record.
RECURSIVE AfterStatements(_, _, _)
AfterStatements(d, session_record, n) ==
    LET session_id == session_record.session_id
        user_id == Get(Get(session_record, "user_profile", EmptyDict), "user_id", session_id)
        performance_analysis == Get(session_record, "performance_analysis", EmptyDict)
        category_scores == CategoryScores(session_record)
        before == AfterStatements(d, session_record, n - 1)
    IN IF n = 0 THEN d
       ELSE IF n = 1 THEN UpdateSessionCompleted(d, session_record)
       ELSE IF n <= Len(category_scores) + 1
            THEN InsertMetric(before, session_id, user_id, session_record.timestamp,
                              category_scores[n - 1][1], "category_score",
                              category_scores[n - 1][2])
       ELSE InsertMetric(before, session_id, user_id, session_record.timestamp,
                         "overall", "session_score",
                         Get(performance_analysis, "overall_score", 0))

\* fail_at = 0: nothing fails.  fail_at = k in 1..StatementCount: the k-th
\* statement raises.  fail_at = StatementCount + 1: the commit raises.
\* A record without 'timestamp' raises KeyError while the UPDATE's
\* parameters are built, before any statement runs.
store_session_record(d, c, session_record, fail_at) ==
    LET all == StatementCount(session_record)
    IN IF ~Has(session_record, "timestamp")
       THEN [db |-> d, committed |-> c, ok |-> FALSE]
       ELSE IF fail_at = 0
       THEN LET written == AfterStatements(d, session_record, all)
            IN [db |-> written, committed |-> written, ok |-> TRUE]
       ELSE [db |-> AfterStatements(d, session_record, fail_at - 1),
             committed |-> c, ok |-> FALSE]

\* The values of fail_at that differ in effect for a record.
FailPoints(session_record) ==
    IF Has(session_record, "timestamp")
    THEN 0..(StatementCount(session_record) + 1)
    ELSE {0}

store_completed_session(d, c, session_data, fail_at) ==
    store_session_record(d, c, session_data, fail_at)

\* A SELECT that forgets the status: every session row of the user.
SessionsOfAnyStatus(d, user_id) ==
    {sid \in DOMAIN d.sessions : d.sessions[sid].user_id = user_id}

\* SELECT session_data FROM sessions WHERE user_id = ? AND status =
\* 'completed': the rows get_performance_history reads, before ORDER BY / LIMIT.
CompletedSessionsOf(d, user_id) ==
    {sid \in DOMAIN d.sessions :
        d.sessions[sid].user_id = user_id /\ d.sessions[sid].status = "completed"}

\* A DELETE that removes one old row per call.
DeleteOneOldMetric(d, cutoff_date) ==
    LET old == {m \in d.performance_metrics : m.recorded_at < cutoff_date}
    IN IF old = {} THEN d
       ELSE [d EXCEPT !.performance_metrics =
                @ \ {CHOOSE m \in old : \A o \in old : m.metric_id <= o.metric_id}]

\* ORDER BY completed_at DESC: the ids of S, latest completion first; rows
\* that compare equal come in an order the query does not fix.
RECURSIVE OrderByCompletedDesc(_, _)
OrderByCompletedDesc(d, S) ==
    IF S = {} THEN <<>>
    ELSE LET first == CHOOSE x \in S :
                         \A y \in S : d.sessions[y].completed_at <= d.sessions[x].completed_at
         IN <<first>> \o OrderByCompletedDesc(d, S \ {first})

\* A history that forgets the except block: a failing SELECT raises.
HistoryUncaught(d, user_id, limit, fail) ==
    [value |-> <<>>, raised |-> fail]

\* fail: the SELECT raises; the except block returns [].  [value, raised].
get_performance_history(d, user_id, limit, fail) ==
    LET rows == Take(OrderByCompletedDesc(d, CompletedSessionsOf(d, user_id)), limit)
    IN [value |-> IF fail THEN <<>>
                  ELSE [i \in DOMAIN rows |-> d.sessions[rows[i]].session_data],
        raised |-> FALSE]

\* DELETE FROM performance_metrics WHERE recorded_at < cutoff_date.
DeleteOldMetrics(d, cutoff_date) ==
    [d EXCEPT !.performance_metrics = {m \in @ : ~(m.recorded_at < cutoff_date)}]

\* A DELETE of the old sessions whatever their status.
DeleteOldSessionsAnyStatus(d, cutoff_date) ==
    LET kept == {session_id \in DOMAIN d.sessions :
                    ~(d.sessions[session_id].created_at < cutoff_date)}
    IN [d EXCEPT !.sessions = [session_id \in kept |-> @[session_id]]]

\* DELETE FROM sessions WHERE created_at < cutoff_date AND status = 'completed'.
DeleteOldSessions(d, cutoff_date) ==
    LET kept == {session_id \in DOMAIN d.sessions :
                    ~(/\ d.sessions[session_id].created_at < cutoff_date
                      /\ d.sessions[session_id].status = "completed")}
    IN [d EXCEPT !.sessions = [session_id \in kept |-> @[session_id]]]

\* cutoff_date is now - days_old, any instant, days_old being the caller's.
\* fail_at = 0: nothing fails; 1: the first DELETE (or the computation of
\* the cutoff) raises; 2: the second DELETE raises; 3: the commit raises.
\* [db, committed, value].
cleanup_old_data(d, c, cutoff_date, fail_at) ==
    LET after_metrics == DeleteOldMetrics(d, cutoff_date)
        deleted_metrics == Cardinality(d.performance_metrics)
                              - Cardinality(after_metrics.performance_metrics)
        after_sessions == DeleteOldSessions(after_metrics, cutoff_date)
        deleted_sessions == Cardinality(DOMAIN d.sessions)
                               - Cardinality(DOMAIN after_sessions.sessions)
    IN CASE fail_at = 1 -> [db |-> d, committed |-> c, value |-> 0]
         [] fail_at = 2 -> [db |-> after_metrics, committed |-> c, value |-> 0]
         [] fail_at = 3 -> [db |-> after_sessions, committed |-> c, value |-> 0]
         [] OTHER -> [db |-> after_sessions, committed |-> after_sessions,
                      value |-> deleted_metrics + deleted_sessions]

(***************************************************************************)
(* get_learning_insights.  A score (metric_value, REAL) is a number of     *)
(* hundredths: 70 is 0.7.  Averages are the fractions [num, den]; the      *)
(* rounding of binary floating point is not represented.                   *)
(***************************************************************************)
\* ORDER BY recorded_at ASC: the rows of S, earliest first; rows recorded at
\* the same time come in the order of their insertion.
RECURSIVE OrderByRecordedAsc(_)
OrderByRecordedAsc(S) ==
    IF S = {} THEN <<>>
    ELSE LET first == CHOOSE m \in S :
                         \A o \in S :
                            \/ m.recorded_at < o.recorded_at
                            \/ m.recorded_at = o.recorded_at /\ m.metric_id <= o.metric_id
         IN <<first>> \o OrderByRecordedAsc(S \ {first})

\* SELECT category, metric_value, recorded_at FROM performance_metrics
\* WHERE user_id = ? AND metric_name = 'category_score' ORDER BY recorded_at.
CategoryScoreRows(d, user_id) ==
    OrderByRecordedAsc({m \in d.performance_metrics :
                           m.user_id = user_id /\ m.metric_name = "category_score"})

\* Lines 429-436: the keys of category_performance in the order of their
\* first row.
RECURSIVE CategoriesInOrder(_)
CategoriesInOrder(metrics) ==
    IF metrics = <<>> THEN <<>>
    ELSE LET before == CategoriesInOrder(SubSeq(metrics, 1, Len(metrics) - 1))
             category == metrics[Len(metrics)].category
         IN IF category \in Range(before) THEN before ELSE Append(before, category)

\* category_performance[category]: the category's scores in the rows' order.
ScoresOf(metrics, category) ==
    LET rows == SelectSeq(metrics, LAMBDA m : m.category = category)
    IN [i \in DOMAIN rows |-> rows[i].metric_value]

\* A trend that compares the last score with the one before it.
TrendOfLastTwo(scores) ==
    LET trend == scores[Len(scores)] - scores[Len(scores) - 1]
    IN [current_score |-> scores[Len(scores)],
        average_score |-> [num |-> SumSeq(scores), den |-> Len(scores)],
        trend |-> IF trend > 10 THEN "improving"
                  ELSE IF trend < -10 THEN "declining" ELSE "stable",
        sessions_tracked |-> Len(scores)]

\* Lines 441-449: the entry of performance_trends for a category's scores.
TrendOf(scores) ==
    LET trend == scores[Len(scores)] - scores[1]
    IN [current_score |-> scores[Len(scores)],
        average_score |-> [num |-> SumSeq(scores), den |-> Len(scores)],
        trend |-> IF trend > 10 THEN "improving"
                  ELSE IF trend < -10 THEN "declining" ELSE "stable",
        sessions_tracked |-> Len(scores)]

\* Lines 440-455: strong_areas (strong) or improvement_areas (~strong): the
\* categories with at least 2 scores whose average is >= 0.7, or < 0.5.
Areas(metrics, strong) ==
    SelectSeq(CategoriesInOrder(metrics),
              LAMBDA category :
                 LET scores == ScoresOf(metrics, category)
                 IN /\ Len(scores) >= 2
                    /\ IF strong THEN SumSeq(scores) >= 70 * Len(scores)
                       ELSE SumSeq(scores) < 50 * Len(scores))

\* area.replace('_', ' ') for the category names of the model.
Spaced(area) ==
    CASE area = "system_design" -> "system design"
      [] area = "problem_solving" -> "problem solving"
      [] OTHER -> area

\* Recommendations whose session tip has no upper gap: 3 or 4 sessions get
\* the momentum tip too.
RecommendationsMomentumBelow5(insights) ==
    LET improvement_areas == Get(insights, "improvement_areas", <<>>)
        strong_areas == Get(insights, "strong_areas", <<>>)
        total_sessions == Get(insights, "total_sessions", 0)
        top == Take(improvement_areas, 3)
        recommendations ==
               [i \in DOMAIN top |-> <<"Focus on improving", Spaced(top[i])>>]
            \o (IF total_sessions < 5 THEN << <<"build momentum">> >>
                ELSE << <<"advanced difficulty">> >>)
            \o (IF strong_areas # <<>>
                THEN << <<"Leverage your strength in", Spaced(strong_areas[1])>> >>
                ELSE <<>>)
    IN IF recommendations = <<>> THEN << <<"Continue regular practice">> >>
       ELSE recommendations

\* A recommendation is the tuple of its fixed text and the area it names.
_generate_learning_recommendations(insights) ==
    LET improvement_areas == Get(insights, "improvement_areas", <<>>)
        strong_areas == Get(insights, "strong_areas", <<>>)
        total_sessions == Get(insights, "total_sessions", 0)
        top == Take(improvement_areas, 3)
        recommendations ==
               [i \in DOMAIN top |-> <<"Focus on improving", Spaced(top[i])>>]
            \o (IF total_sessions < 3 THEN << <<"build momentum">> >>
                ELSE IF total_sessions >= 5 THEN << <<"advanced difficulty">> >>
                ELSE <<>>)
            \o (IF strong_areas # <<>>
                THEN << <<"Leverage your strength in", Spaced(strong_areas[1])>> >>
                ELSE <<>>)
    IN IF recommendations = <<>> THEN << <<"Continue regular practice">> >>
       ELSE recommendations

\* Lines 405-413: the insights before anything is computed.
InsightShell(user_id) ==
    [user_id |-> user_id,
     total_sessions |-> 0,
     performance_trends |-> EmptyDict,
     improvement_areas |-> <<>>,
     strong_areas |-> <<>>,
     learning_velocity |-> "moderate",
     recommendations |-> <<>>]

\* Insights that go on computing for a user without rows.
InsightsNoEarlyReturn(d, user_id, fail) ==
    IF fail THEN [user_id |-> user_id, error |-> "error"]
    ELSE [InsightShell(user_id) EXCEPT
            !.total_sessions = Cardinality(CompletedSessionsOf(d, user_id)),
            !.recommendations =
                _generate_learning_recommendations(
                    [InsightShell(user_id) EXCEPT
                        !.total_sessions = Cardinality(CompletedSessionsOf(d, user_id))])]

\* fail: a SELECT raises; the except block returns {user_id, error}.
get_learning_insights(d, user_id, fail) ==
    LET metrics == CategoryScoreRows(d, user_id)
        tracked == SelectSeq(CategoriesInOrder(metrics),
                             LAMBDA category : Len(ScoresOf(metrics, category)) >= 2)
        counted == [InsightShell(user_id) EXCEPT
                      !.total_sessions = Cardinality(CompletedSessionsOf(d, user_id)),
                      !.performance_trends =
                          [category \in Range(tracked) |-> TrendOf(ScoresOf(metrics, category))],
                      !.strong_areas = Areas(metrics, TRUE),
                      !.improvement_areas = Areas(metrics, FALSE)]
    IN IF fail THEN [user_id |-> user_id, error |-> "error"]
       ELSE IF metrics = <<>> THEN InsightShell(user_id)
       ELSE [counted EXCEPT !.recommendations = _generate_learning_recommendations(counted)]

(***************************************************************************)
(* get_user_statistics.  The question_performance table is not part of the *)
(* model, and neither is total_questions_answered, which is counted from   *)
(* it.  Session scores are hundredths and the statistics made from them    *)
(* thousandths (round(x, 3)).                                              *)
(***************************************************************************)
RECURSIVE SumOf(_)
SumOf(S) ==
    IF S = {} THEN 0
    ELSE LET m == CHOOSE m \in S : TRUE
         IN m.metric_value + SumOf(S \ {m})

\* a / n rounded to the nearest integer, a half to the even one.
RoundDiv(a, n) ==
    LET q == a \div n
        r == a % n
    IN IF 2 * r < n THEN q
       ELSE IF 2 * r > n THEN q + 1
       ELSE IF q % 2 = 0 THEN q ELSE q + 1

\* SUM(CASE WHEN status = 'completed' THEN 1 ELSE 0 END) FROM sessions WHERE
\* user_id = ?: SUM over no rows is NULL.
SumCompleted(d, user_id) ==
    LET rows == {session_id \in DOMAIN d.sessions : d.sessions[session_id].user_id = user_id}
    IN IF rows = {} THEN NULL
       ELSE Cardinality({session_id \in rows : d.sessions[session_id].status = "completed"})

\* fail: a SELECT raises; the except block returns {user_id, error}.
get_user_statistics(d, user_id, fail) ==
    LET rows == {session_id \in DOMAIN d.sessions : d.sessions[session_id].user_id = user_id}
        completed == {session_id \in rows : d.sessions[session_id].status = "completed"}
        scores == {m \in d.performance_metrics :
                      m.user_id = user_id /\ m.metric_name = "session_score"}
        \* AVG is NULL over no rows, and 0.0 is falsy: the defaults stay.
        scored == scores # {} /\ SumOf(scores) # 0
        last_session == IF completed = {} THEN ""
                        ELSE LET latest == CHOOSE x \in completed :
                                     \A y \in completed :
                                        d.sessions[y].completed_at <= d.sessions[x].completed_at
                             IN d.sessions[latest].completed_at
    IN IF fail THEN [user_id |-> user_id, error |-> "error"]
       ELSE [user_id |-> user_id,
             profile_created |-> IF user_id \in DOMAIN d.user_profiles
                                 THEN d.user_profiles[user_id].created_at ELSE "",
             total_sessions |-> Cardinality(rows),
             completed_sessions |-> SumCompleted(d, user_id),
             average_session_score |->
                 IF scored THEN RoundDiv(SumOf(scores) * 10, Cardinality(scores)) ELSE 0,
             best_session_score |->
                 IF scored
                 THEN 10 * (CHOOSE v \in {m.metric_value : m \in scores} :
                               \A m \in scores : m.metric_value <= v)
                 ELSE 0,
             recent_activity |-> last_session,
             skill_progression |-> EmptyDict,
             time_invested_minutes |-> 0]

(***************************************************************************)
(* SessionManager.                                                         *)
(***************************************************************************)
NewSessionData(session_id, t) ==
    [session_id |-> session_id,
     created_at |-> t,
     status |-> "initializing",
     user_profile |-> EmptyDict,
     context_data |-> EmptyDict,
     interview_plan |-> EmptyDict,
     agent_interactions |-> <<>>]

\* Lines 65-66, 70-71, 75-76 and 80-83: each step and the assignment of its
\* output to session_data.
Step1(session_data, inp) ==
    [session_data EXCEPT !.user_profile =
        Put(@, "experience",
            _gather_experience_assessment(inp.years_input, inp.field,
                                          inp.current_role, inp.entries))]

Step2(session_data, inp, t) ==
    [session_data EXCEPT !.user_profile =
        Put(@, "target_job",
            _gather_job_description_analysis(inp.company, inp.role, inp.role_contains,
                                             inp.description, t))]

Step3(session_data) ==
    [session_data EXCEPT !.context_data =
        Put(@, "extracted_requirements",
            _perform_context_engineering(session_data.user_profile.target_job.description))]

\* The plan is built and never assigned to session_data.
Step4Lost(session_data) == session_data

Step4(session_data) ==
    [session_data EXCEPT !.interview_plan =
        _create_adaptive_interview_plan(session_data.user_profile.experience,
                                        session_data.user_profile.target_job,
                                        session_data.context_data.extracted_requirements)]

\* The body of the try block up to line 83: session_data as the four steps
\* leave it when step fail_step raises (0: none does).
RunSteps(session_data, inp, fail_step, t) ==
    IF fail_step = 1 THEN session_data
    ELSE Local(Step1(session_data, inp), LAMBDA s1 :
      IF fail_step = 2 THEN s1
      ELSE Local(Step2(s1, inp, t), LAMBDA s2 :
        IF fail_step = 3 THEN s2
        ELSE Local(Step3(s2), LAMBDA s3 :
          IF fail_step = 4 THEN s3
          ELSE Step4(s3))))

ErrorMessage(fail_step) ==
    CASE fail_step = 1 -> "experience assessment failed"
      [] fail_step = 2 -> "job description analysis failed"
      [] fail_step = 3 -> "context engineering failed"
      [] OTHER -> "interview plan failed"

\* Lines 85-101: the session marked initialized, with its difficulty level.
Initialized(session_data) ==
    LET experience_data == session_data.user_profile.experience
        extracted_skills == session_data.context_data.extracted_requirements
        marked == Put(session_data, "status", "initialized")
    IN [marked EXCEPT !.user_profile =
            Put(@, "difficulty_level",
                _calculate_initial_difficulty(experience_data, extracted_skills))]

\* A handler that marks the session failed and drops the message.
FailedNoMessage(session_data, fail_step) ==
    Put(session_data, "status", "failed")

\* Lines 103-108: the except branch.
Failed(session_data, fail_step) ==
    Put(Put(session_data, "status", "failed"), "error", ErrorMessage(fail_step))

\* The whole call: [active_sessions, db, committed, value, raised, stored];
\* stored lists what the store calls made during the call returned, which
\* the code discards.
initialize_session(active, d, c, session_id, inp, t, fail_step, fail_profile, fail) ==
    Local(RunSteps(NewSessionData(session_id, t), inp, fail_step, t),
          LAMBDA session_data :
            IF fail_step = 0
            THEN Local(store_session_initialization(d, c, Initialized(session_data), t,
                                                    fail_profile, fail),
                       LAMBDA stored :
                         [active_sessions |-> Put(active, session_id, stored.session_data),
                          db |-> stored.db, committed |-> stored.committed,
                          value |-> session_id, raised |-> FALSE,
                          stored |-> <<stored.profile_ok, stored.ok>>])
            ELSE [active_sessions |-> Put(active, session_id, Failed(session_data, fail_step)),
                  db |-> d, committed |-> c,
                  value |-> session_id, raised |-> FALSE, stored |-> <<>>])

get_session_data(active, session_id) ==
    IF session_id \in DOMAIN active THEN active[session_id] ELSE EmptyDict

\* additional_data = EmptyDict stands for None and for {}.
update_session_status(active, session_id, status, additional_data, t) ==
    IF session_id \in DOMAIN active
    THEN LET s1 == Put(Put(active[session_id], "status", status), "last_updated", t)
             s2 == IF Truthy(additional_data) THEN Update(s1, additional_data) ELSE s1
         IN [active_sessions |-> Put(active, session_id, s2), value |-> TRUE]
    ELSE [active_sessions |-> active, value |-> FALSE]

\* Lines 438-445: the record built and appended to the session's log.
Recorded(active, session_id, agent_name, interaction_data, t) ==
    LET interaction_record ==
            [timestamp |-> t,
             agent |-> agent_name,
             interaction_type |-> Get(interaction_data, "type", "unknown"),
             data |-> interaction_data]
    IN [active EXCEPT ![session_id].agent_interactions = Append(@, interaction_record)]

\* A call that reports success whether or not the session is active.
RecordAlwaysTrue(active, session_id, agent_name, interaction_data, t) ==
    IF session_id \in DOMAIN active
    THEN [active_sessions |-> Recorded(active, session_id, agent_name, interaction_data, t),
          value |-> TRUE]
    ELSE [active_sessions |-> active, value |-> TRUE]

record_agent_interaction(active, session_id, agent_name, interaction_data, t) ==
    IF session_id \in DOMAIN active
    THEN [active_sessions |-> Recorded(active, session_id, agent_name, interaction_data, t),
          value |-> TRUE]
    ELSE [active_sessions |-> active, value |-> FALSE]

\* A hand-off that copies: the entry stays in the active set.
RemoveNothing(active, session_id) == active

\* Line 458: del self.active_sessions[session_id].
Remove(active, session_id) ==
    [k \in DOMAIN active \ {session_id} |-> active[k]]

\* A finalize that stamps the time and leaves the status as it was.
CompletedNoStatus(session_data, t) ==
    Put(session_data, "completed_at", t)

\* Lines 452-454: the session marked completed and stamped.
Completed(session_data, t) ==
    Put(Put(session_data, "status", "completed"), "completed_at", t)

\* Lines 452-463: the branch for a session_id of the active set.
FinalizeActive(active, history, d, c, session_id, t, fail_at) ==
    Local(Completed(active[session_id], t),
          LAMBDA session_data :
            Local(store_completed_session(d, c, session_data, fail_at),
                  LAMBDA stored :
                    [active_sessions |-> Remove(active, session_id),
                     session_history |-> Append(history, session_data),
                     db |-> stored.db, committed |-> stored.committed,
                     value |-> session_data, raised |-> FALSE,
                     stored |-> <<stored.ok>>]))

\* A finalize without the membership test: the lookup of an unknown id raises.
FinalizeUnguarded(active, history, d, c, session_id, t, fail_at) ==
    IF session_id \in DOMAIN active
    THEN FinalizeActive(active, history, d, c, session_id, t, fail_at)
    ELSE [active_sessions |-> active, session_history |-> history,
          db |-> d, committed |-> c, value |-> EmptyDict, raised |-> TRUE,
          stored |-> <<>>]

\* [active_sessions, session_history, db, committed, value, raised, stored].
finalize_session(active, history, d, c, session_id, t, fail_at) ==
    IF session_id \in DOMAIN active
    THEN FinalizeActive(active, history, d, c, session_id, t, fail_at)
    ELSE [active_sessions |-> active, session_history |-> history,
          db |-> d, committed |-> c, value |-> EmptyDict, raised |-> FALSE,
          stored |-> <<>>]

(***************************************************************************)
(* Inputs.                                                                 *)
(***************************************************************************)
StoreFailures == {"none", "execute", "commit"}

InitInputs ==
    {[years_input |-> 1, field |-> "back-end", current_role |-> "Engineer",
      entries |-> <<0, 4, 0, 5, 0>>,
      company |-> "Acme", role |-> "Backend Developer", role_contains |-> {},
      description |-> Description({"react", "junior"})]}

SessionIds == {SessionId(n) : n \in 1..MaxSessions}

StatusArgs == {"in_progress"}

PerformanceAnalysis ==
    [category_scores |-> << <<"communication", 40>> >>, overall_score |-> 40]

AdditionalData(t) ==
    {EmptyDict,
     [performance_analysis |-> PerformanceAnalysis, timestamp |-> t]}

InteractionData == {[type |-> "question"]}

\* The answers of users of every experience level about jobs of every kind:
\* years on both sides of the thresholds of _categorize_experience_level,
\* and descriptions holding any of the keywords below, or left blank.
PlanYears == {2, 3, 5, 6}

PlanKeywords == {"junior", "senior", "python", "coding", "system design", "mentor"}

PlanInputs ==
    {[years_input |-> years, field |-> "back-end", current_role |-> "Engineer",
      entries |-> <<0, 4, 0, 5, 0>>,
      company |-> "Acme", role |-> "Backend Developer", role_contains |-> {},
      description |-> description] :
        years \in PlanYears,
        description \in {Description(contains) : contains \in SUBSET PlanKeywords}
                            \cup {BlankDescription}}

\* additional_data of a caller that names a key the session already has.
PlanData == {EmptyDict, [interview_plan |-> EmptyDict]}

(***************************************************************************)
(* The clock.  Every call that reads datetime.now() gets a later reading   *)
(* than the call before it, until the readings reach MaxTime; from then on *)
(* calls read the same time.                                               *)
(***************************************************************************)
Advance(t) == IF t < MaxTime THEN t + 1 ELSE t

TotalInteractions ==
    LET ids == DOMAIN active_sessions
        RECURSIVE count(_)
        count(S) == IF S = {} THEN 0
                    ELSE LET k == CHOOSE k \in S : TRUE
                         IN Len(active_sessions[k].agent_interactions) + count(S \ {k})
    IN count(ids)
       + SumSeq([i \in DOMAIN session_history |->
                    Len(session_history[i].agent_interactions)])

(***************************************************************************)
(* The specification of the session lifecycle: one action per call of the  *)
(* SessionManager.  faults is the set of storage failures the MemoryBank   *)
(* may meet during the call.                                               *)
(***************************************************************************)
Init ==
    /\ active_sessions = EmptyDict
    /\ session_history = <<>>
    /\ next_id = 0
    /\ db = EmptyTables
    /\ committed = EmptyTables
    /\ now = 0
    /\ ret = [op |-> "__init__", arg |-> SessionId(0), value |-> FALSE, raised |-> FALSE,
              fault |-> FALSE, stored |-> <<>>, failed |-> <<>>]

\* initialize_session with the user's answers drawn from inputs.
InitializeSessionOf(inputs, faults) ==
    /\ next_id < MaxSessions
    /\ \E inp \in inputs, fail_step \in 0..4, fail_profile \in faults, fail \in faults :
          \E r \in {initialize_session(active_sessions, db, committed,
                                      SessionId(next_id + 1), inp, now,
                                      fail_step, fail_profile, fail)} :
             /\ active_sessions' = r.active_sessions
             /\ db' = r.db
             /\ committed' = r.committed
             /\ ret' = [op |-> "initialize_session", arg |-> SessionId(next_id + 1),
                        value |-> r.value, raised |-> r.raised,
                        fault |-> fail_step = 0 /\ <<fail_profile, fail>> # <<"none", "none">>,
                        stored |-> r.stored,
                        failed |-> IF fail_step = 0
                                   THEN <<fail_profile # "none", fail # "none">>
                                   ELSE <<>>]
    /\ next_id' = next_id + 1
    /\ now' = Advance(now)
    /\ UNCHANGED session_history

InitializeSession(faults) == InitializeSessionOf(InitInputs, faults)

\* update_session_status with additional_data drawn from data.
UpdateSessionStatusOf(data) ==
    /\ \E session_id \in SessionIds, status \in StatusArgs,
          additional_data \in data :
          \E r \in {update_session_status(active_sessions, session_id, status,
                                         additional_data, now)} :
             /\ active_sessions' = r.active_sessions
             /\ ret' = [op |-> "update_session_status", arg |-> session_id,
                        value |-> r.value, raised |-> FALSE, fault |-> FALSE,
                        stored |-> <<>>, failed |-> <<>>]
             /\ now' = IF r.value THEN Advance(now) ELSE now
    /\ UNCHANGED <<session_history, next_id, db, committed>>

UpdateSessionStatus == UpdateSessionStatusOf(AdditionalData(now))

RecordAgentInteraction ==
    /\ \E session_id \in SessionIds, interaction_data \in InteractionData :
          /\ session_id \in DOMAIN active_sessions => TotalInteractions < MaxInteractions
          /\ \E r \in {record_agent_interaction(active_sessions, session_id,
                                               "InterviewConductor", interaction_data, now)} :
                /\ active_sessions' = r.active_sessions
                /\ ret' = [op |-> "record_agent_interaction", arg |-> session_id,
                           value |-> r.value, raised |-> FALSE, fault |-> FALSE,
                        stored |-> <<>>, failed |-> <<>>]
                /\ now' = IF r.value THEN Advance(now) ELSE now
    /\ UNCHANGED <<session_history, next_id, db, committed>>

FinalizeSession(faulty) ==
    /\ \E session_id \in SessionIds :
          \E fail_at \in IF faulty
                         THEN FailPoints(get_session_data(active_sessions, session_id))
                         ELSE {0} :
             \E r \in {finalize_session(active_sessions, session_history, db, committed,
                                       session_id, now, fail_at)} :
                /\ active_sessions' = r.active_sessions
                /\ session_history' = r.session_history
                /\ db' = r.db
                /\ committed' = r.committed
                /\ ret' = [op |-> "finalize_session", arg |-> session_id,
                           value |-> r.value, raised |-> r.raised,
                           fault |-> fail_at # 0, stored |-> r.stored,
                           failed |-> IF r.stored = <<>> THEN <<>> ELSE <<fail_at # 0>>]
                /\ now' = IF session_id \in DOMAIN active_sessions
                          THEN Advance(now) ELSE now
    /\ UNCHANGED next_id

Next ==
    \/ InitializeSession({"none"})
    \/ UpdateSessionStatus
    \/ RecordAgentInteraction
    \/ FinalizeSession(FALSE)

Spec == Init /\ [][Next]_vars

(***************************************************************************)
(* The session lifecycle with callers of update_session_status that pass   *)
(* additional_data naming keys of the session.                             *)
(***************************************************************************)
UpdateWithPlanData == UpdateSessionStatusOf(PlanData)

NextPlan ==
    \/ InitializeSession({"none"})
    \/ UpdateWithPlanData
    \/ RecordAgentInteraction
    \/ FinalizeSession(FALSE)

SpecPlan == Init /\ [][NextPlan]_vars

(***************************************************************************)
(* The specification of the planning: one session is initialized from any  *)
(* of the answers of PlanInputs.                                           *)
(***************************************************************************)
PlanSession == next_id = 0 /\ InitializeSessionOf(PlanInputs, {"none"})

NextPlanning == PlanSession

SpecPlanning == Init /\ [][NextPlanning]_vars

(***************************************************************************)
(* The specification of the self-assessment: the user's answers to         *)
(* _gather_experience_assessment are drawn from AssessmentInputs, and the  *)
(* confidence score of the plan is computed from what it returns.          *)
(***************************************************************************)
\* What is typed for a skill: nothing (0), or a rating.
Typed == {0, 2, 5}

AssessmentInputs ==
    {[years_input |-> 3, field |-> field, current_role |-> "Engineer", entries |-> entries] :
        field \in {"back-end", "front-end"}, entries \in [1..5 -> Typed]}

GatherExperienceAssessment ==
    /\ \E inp \in AssessmentInputs :
          \E experience_data \in {_gather_experience_assessment(inp.years_input, inp.field,
                                                                inp.current_role, inp.entries)} :
             ret' = [op |-> "_gather_experience_assessment", arg |-> inp,
                     value |-> [experience_data |-> experience_data,
                                self_assessed_confidence |->
                                    _calculate_confidence_score(experience_data)],
                     raised |-> FALSE, fault |-> FALSE,
                     stored |-> <<>>, failed |-> <<>>]
    /\ UNCHANGED <<active_sessions, session_history, next_id, db, committed, now>>

NextAssessment == GatherExperienceAssessment

SpecAssessment == Init /\ [][NextAssessment]_vars

(***************************************************************************)
(* The specification of the extraction: _perform_context_engineering is    *)
(* applied to descriptions written with a few technologies and a few words *)
(* of seniority and responsibility, and to the blank one.  A description   *)
(* that holds a keyword holds the keywords that are substrings of it.      *)
(***************************************************************************)
\* The extractor's keywords that are substrings of another of its keywords.
Contained ==
    [javascript |-> {"java"}, mysql |-> {"sql"}, postgresql |-> {"sql"},
     django |-> {"go"}, mongodb |-> {"go"}, algorithms |-> {"go"},
     architecture |-> {"architect"}, leadership |-> {"lead"}]
    @@ ("google cloud" :> {"go"})
    @@ ("technical leadership" :> {"lead", "leadership"})

\* The keywords found in a text written with these words.
Written(words) == words \cup UNION {Get(Contained, w, {}) : w \in words}

\* No technology; six; eight.
ExtractionStacks ==
    {{}, {"javascript", "django", "mysql"},
     {"javascript", "django", "postgresql", "docker", "api"}}

ExtractionWords ==
    {"senior", "mid-level", "junior", "mentor", "guide", "coding", "system design", "team"}

ExtractionInputs ==
    {Description(Written(stack \cup words)) :
        stack \in ExtractionStacks, words \in SUBSET ExtractionWords}
    \cup {BlankDescription}

\* The call returns extraction_results; what it prints as "Detected seniority
\* level" (nothing for a blank description) is kept beside it.
PerformContextEngineering ==
    /\ \E job_description \in ExtractionInputs :
          ret' = [op |-> "_perform_context_engineering", arg |-> job_description,
                  value |-> [extraction_results |->
                                 _perform_context_engineering(job_description),
                             detected_seniority |->
                                 IF job_description.blank THEN ""
                                 ELSE DetectedSeniority(job_description.contains)],
                  raised |-> FALSE, fault |-> FALSE,
                  stored |-> <<>>, failed |-> <<>>]
    /\ UNCHANGED <<active_sessions, session_history, next_id, db, committed, now>>

NextExtraction == PerformContextEngineering

SpecExtraction == Init /\ [][NextExtraction]_vars

(***************************************************************************)
(* CodeExecutionTool.  A submission is abstracted to the set of fragments  *)
(* of a small vocabulary that occur in its text, written as in the source  *)
(* text; str.lower() maps a fragment to its lower-case spelling, and       *)
(* `pattern in code_lower` holds when the pattern is one of the lowered    *)
(* fragments (no lowered fragment of the vocabulary has another pattern as *)
(* a substring).  Test inputs are not represented.                         *)
(***************************************************************************)
\* str.lower() on the fragments that are not lower case already.
Lower(fragment) ==
    CASE fragment = "Runtime.getRuntime" -> "runtime.getruntime"
      [] fragment = "ProcessBuilder" -> "processbuilder"
      [] fragment = "System.exit" -> "system.exit"
      [] fragment = "System.out.println" -> "system.out.println"
      [] fragment = "File(" -> "file("
      [] fragment = "FileWriter" -> "filewriter"
      [] fragment = "FileReader" -> "filereader"
      [] fragment = "Import OS" -> "import os"
      [] OTHER -> fragment

base_patterns ==
    <<"import os", "import subprocess", "exec(", "eval(", "__import__", "open(", "file(",
      "delete", "remove">>

java_patterns ==
    <<"Runtime.getRuntime", "ProcessBuilder", "System.exit", "File(", "FileWriter", "FileReader">>

dangerous_patterns(language) ==
    IF language = "java" THEN base_patterns \o java_patterns ELSE base_patterns

_validate_code_security(code, language) ==
    LET code_lower == {Lower(fragment) : fragment \in code}
        violations == SelectSeq(dangerous_patterns(language),
                                LAMBDA pattern : pattern \in code_lower)
    IN [is_safe |-> violations = <<>>, violations |-> violations]

\* return_code: what the interpreter returns.  [result, subprocesses].
_execute_python_code(code, return_code) ==
    [result |-> [success |-> return_code = 0, return_code |-> return_code,
                 test_results |-> <<>>],
     subprocesses |-> <<"python">>]

\* compile_code, return_code: what javac and java return.
_execute_java_code(code, compile_code, return_code) ==
    IF compile_code # 0
    THEN [result |-> [success |-> FALSE, return_code |-> -1, test_results |-> <<>>,
                      error_message |-> "Compilation failed"],
          subprocesses |-> <<"javac">>]
    ELSE [result |-> [success |-> return_code = 0, return_code |-> return_code,
                      test_results |-> <<>>],
          subprocesses |-> <<"javac", "java">>]

\* [result, subprocesses]: the dict returned and the subprocesses started.
execute(available_languages, code, language, compile_code, return_code) ==
    LET execution_result ==
            [success |-> FALSE, language |-> language, return_code |-> -1,
             error_message |-> "", security_violations |-> <<>>, test_results |-> <<>>]
        security_check == _validate_code_security(code, language)
    IN IF language \notin available_languages
       THEN [result |-> [execution_result EXCEPT !.error_message = "not supported"],
             subprocesses |-> <<>>]
       ELSE IF ~security_check.is_safe
       THEN [result |-> [execution_result EXCEPT
                            !.security_violations = security_check.violations,
                            !.error_message = "Code contains security violations"],
             subprocesses |-> <<>>]
       ELSE IF language = "java"
       THEN _execute_java_code(code, compile_code, return_code)
       ELSE _execute_python_code(code, return_code)

(***************************************************************************)
(* The specification of the code execution: one tool, whose available      *)
(* languages were found when it was built, executes submissions of a few   *)
(* fragments in Python, Java and a language it does not know.              *)
(***************************************************************************)
CodeFragments ==
    Range(base_patterns) \cup Range(java_patterns)
       \cup {"print(", "System.out.println", "Import OS"}

\* No fragment, one, and a few submissions with two.
CodeInputs ==
    {{}} \cup {{fragment} : fragment \in CodeFragments}
         \cup {{"print(", "exec("}, {"Runtime.getRuntime", "exec("},
                {"System.out.println", "ProcessBuilder"}}

\* Python runs the tool itself; java may be missing.
AvailableLanguages == {{"python"}, {"python", "java"}}

\* The argument holds the tool the call is made on: every call of a
\* behaviour is made on the same one.
ExecuteCode ==
    /\ \E available_languages \in IF ret.op = "execute"
                                  THEN {ret.arg.self.available_languages}
                                  ELSE AvailableLanguages,
          code \in CodeInputs, language \in {"python", "java", "ruby"},
          compile_code \in {0, 1}, return_code \in {0, 1} :
          \E r \in {execute(available_languages, code, language, compile_code, return_code)} :
             ret' = [op |-> "execute",
                     arg |-> [self |-> [available_languages |-> available_languages],
                              code |-> code, language |-> language],
                     value |-> r,
                     raised |-> FALSE, fault |-> FALSE, stored |-> <<>>, failed |-> <<>>]
    /\ UNCHANGED <<active_sessions, session_history, next_id, db, committed, now>>

NextExecution == ExecuteCode

SpecExecution == Init /\ [][NextExecution]_vars

(***************************************************************************)
(* HandoffCustomAgent.  An event of the session is [author, parts]; a part *)
(* is [text], the text abstracted to the set of the two completion signals *)
(* that occur in it, or NoText for a part whose text is None.              *)
(***************************************************************************)
NoText == {"None"}

ProfileComplete == "PROFILE COMPLETE - Are you ready to begin technical interview practice?"

InterviewComplete == "INTERVIEW COMPLETE - Ready for technical validation!"

\* The inner loop over the parts of an event: "found" at the first part with
\* the signal, "raised" at a part whose text is None met before it
\* (`signal in None` is a TypeError), else "none".
ScanParts(parts, signal) ==
    LET stops == {i \in DOMAIN parts : parts[i].text = NoText \/ signal \in parts[i].text}
    IN IF stops = {} THEN "none"
       ELSE LET first == CHOOSE i \in stops : \A j \in stops : i <= j
            IN IF parts[first].text = NoText THEN "raised" ELSE "found"

\* What the loop over the events does with the i-th event.
ScanEvent(events, i) ==
    CASE events[i].author = "SessionInitializer" -> ScanParts(events[i].parts, ProfileComplete)
      [] events[i].author = "InterviewConductor" -> ScanParts(events[i].parts, InterviewComplete)
      [] OTHER -> "none"

\* A coordinator that takes the signals from events of any author.
RunOnAnySignal(events) ==
    LET carries(signal) ==
            \E i \in DOMAIN events : \E k \in DOMAIN events[i].parts :
               signal \in events[i].parts[k].text
    IN IF ~carries(ProfileComplete) THEN <<"SessionInitializer">>
       ELSE IF ~carries(InterviewComplete) THEN <<"InterviewConductor">>
       ELSE <<"FeedbackAnalyzer">>

\* The sub-agents run by one invocation on a session with these events, in
\* order.  An exception inside the try ends the loop and resets
\* session_complete; interview_complete keeps what was found before it.
_run_async_impl(events) ==
    LET raising == {i \in DOMAIN events : ScanEvent(events, i) = "raised"}
        scanned == IF raising = {} THEN DOMAIN events
                   ELSE {i \in DOMAIN events : \A r \in raising : i < r}
        found(author) == \E i \in scanned :
                            events[i].author = author /\ ScanEvent(events, i) = "found"
        session_complete == raising = {} /\ found("SessionInitializer")
        interview_complete == found("InterviewConductor")
    IN IF ~session_complete THEN <<"SessionInitializer">>
       ELSE IF ~interview_complete THEN <<"InterviewConductor">>
       ELSE <<"FeedbackAnalyzer">>

(***************************************************************************)
(* The specification of the hand-off: a conversation of MaxInvocations     *)
(* turns.  Each turn appends the user's message to the session's events,   *)
(* invokes the coordinator, and appends the event of the sub-agent it ran. *)
(* The texts of the user and of the sub-agents hold any of the signals.    *)
(* The call's argument holds the session as the invocation finds it and    *)
(* its value the session as it leaves it.                                  *)
(***************************************************************************)
MaxInvocations == 3

Texts == {{}, {ProfileComplete}, {InterviewComplete}}

\* The events of the session before the user's next message.
SessionEvents == IF ret.op = "_run_async_impl" THEN ret.value.events ELSE <<>>

RunCoordinator ==
    /\ Len(SessionEvents) < 2 * MaxInvocations
    /\ \E typed \in Texts, answered \in Texts :
          LET events == Append(SessionEvents,
                               [author |-> "user", parts |-> <<[text |-> typed]>>])
              agents == _run_async_impl(events)
          IN ret' = [op |-> "_run_async_impl",
                     arg |-> [session |-> [events |-> events]],
                     value |-> [agents |-> agents,
                                events |-> events \o
                                    [i \in DOMAIN agents |->
                                        [author |-> agents[i],
                                         parts |-> <<[text |-> answered]>>]]],
                     raised |-> FALSE, fault |-> FALSE, stored |-> <<>>, failed |-> <<>>]
    /\ UNCHANGED <<active_sessions, session_history, next_id, db, committed, now>>

NextHandoff == RunCoordinator

SpecHandoff == Init /\ [][NextHandoff]_vars

(***************************************************************************)
(* The specification of the Profile Store: one action per call of the      *)
(* MemoryBank's writing operations, made directly on the one shared        *)
(* connection, each with the storage failures it may meet.                 *)
(***************************************************************************)
StoreProfiles ==
    {[experience |-> [field |-> "back-end", years |-> 1, current_role |-> "Engineer",
                      self_assessment |-> ("Security" :> 3)]]}

\* One session, written through a store whose calls may fail.
StoreSessionIds == {SessionId(1)}

StoreSessions(t) ==
    {[session_id |-> session_id, status |-> "initialized", created_at |-> t,
      user_profile |-> profile_data] :
        session_id \in StoreSessionIds, profile_data \in StoreProfiles}

StoreRecords(t) ==
    {[session_id |-> session_id, status |-> "completed", timestamp |-> t,
      performance_analysis |-> PerformanceAnalysis] : session_id \in StoreSessionIds}

StoreUserProfile ==
    /\ \E profile_data \in StoreProfiles, fail \in StoreFailures :
          \E r \in {store_user_profile(db, committed, profile_data, now, fail)} :
             /\ db' = r.db
             /\ committed' = r.committed
             /\ ret' = [op |-> "store_user_profile", arg |-> profile_data,
                        value |-> r.ok, raised |-> FALSE, fault |-> fail # "none",
                        stored |-> <<r.ok>>, failed |-> <<fail # "none">>]
    /\ now' = Advance(now)
    /\ UNCHANGED <<active_sessions, session_history, next_id>>

\* store_session_initialization called with one of these sessions, meeting
\* one of these failures.
StoreSessionInitializationOf(sessions, faults) ==
    /\ \E session_data \in sessions, fail_profile \in faults, fail \in faults :
          \E r \in {store_session_initialization(db, committed, session_data, now,
                                                fail_profile, fail)} :
             /\ db' = r.db
             /\ committed' = r.committed
             /\ ret' = [op |-> "store_session_initialization", arg |-> session_data,
                        value |-> r.ok, raised |-> FALSE, fault |-> fail # "none",
                        stored |-> <<r.profile_ok, r.ok>>,
                        failed |-> <<fail_profile # "none", fail # "none">>]
    /\ now' = Advance(now)
    /\ UNCHANGED <<active_sessions, session_history, next_id>>

StoreSessionInitialization ==
    StoreSessionInitializationOf(StoreSessions(now), StoreFailures)

\* store_session_record called with one of these records while fewer than
\* max_rows metric rows were inserted, meeting a failure if faulty.
StoreSessionRecordOf(records, faulty, max_rows) ==
    /\ \E session_record \in records :
          /\ db.metric_seq + Len(CategoryScores(session_record)) + 1 <= max_rows
          /\ \E fail_at \in IF faulty THEN FailPoints(session_record) ELSE {0} :
                \E r \in {store_session_record(db, committed, session_record, fail_at)} :
                   /\ db' = r.db
                   /\ committed' = r.committed
                   /\ ret' = [op |-> "store_session_record", arg |-> session_record,
                              value |-> r.ok, raised |-> FALSE,
                              fault |-> fail_at # 0,
                              stored |-> <<r.ok>>, failed |-> <<fail_at # 0>>]
    /\ now' = Advance(now)
    /\ UNCHANGED <<active_sessions, session_history, next_id>>

StoreSessionRecord == StoreSessionRecordOf(StoreRecords(now), TRUE, MaxMetrics)

\* The cutoffs a caller can ask for: before, between and after every reading
\* of the clock.
Cutoffs == 0..(MaxTime + 1)

\* cleanup_old_data, meeting a failure if faulty.
CleanupOldDataOf(faulty) ==
    /\ \E cutoff_date \in Cutoffs, fail_at \in IF faulty THEN 0..3 ELSE {0} :
          \E r \in {cleanup_old_data(db, committed, cutoff_date, fail_at)} :
             /\ db' = r.db
             /\ committed' = r.committed
             /\ ret' = [op |-> "cleanup_old_data", arg |-> cutoff_date,
                        value |-> r.value, raised |-> FALSE, fault |-> fail_at # 0,
                        stored |-> <<>>, failed |-> <<>>]
    /\ now' = Advance(now)
    /\ UNCHANGED <<active_sessions, session_history, next_id>>

CleanupOldData == CleanupOldDataOf(TRUE)

\* The ids a reader asks for: those of the stored profiles and an unknown one.
ReadUserIds == DOMAIN db.user_profiles \cup {<<"user", "unknown", 0>>}

HistoryLimit == 10

GetUserProfile ==
    /\ \E user_id \in ReadUserIds, fail \in BOOLEAN :
          ret' = [op |-> "get_user_profile", arg |-> user_id,
                  value |-> get_user_profile(db, user_id, fail),
                  raised |-> FALSE, fault |-> fail,
                  stored |-> <<>>, failed |-> <<>>]
    /\ UNCHANGED <<active_sessions, session_history, next_id, db, committed, now>>

GetPerformanceHistory ==
    /\ \E user_id \in ReadUserIds, fail \in BOOLEAN :
          \E r \in {get_performance_history(db, user_id, HistoryLimit, fail)} :
             ret' = [op |-> "get_performance_history", arg |-> user_id,
                     value |-> r.value, raised |-> r.raised, fault |-> fail,
                     stored |-> <<>>, failed |-> <<>>]
    /\ UNCHANGED <<active_sessions, session_history, next_id, db, committed, now>>

NextStore ==
    \/ StoreUserProfile
    \/ StoreSessionInitialization
    \/ StoreSessionRecord
    \/ CleanupOldData

SpecStore == Init /\ [][NextStore]_vars

(***************************************************************************)
(* The specification of a faulty store: one session is followed from its   *)
(* initialization to its completion while every call the SessionManager    *)
(* makes to the MemoryBank, and every read and cleanup made beside it, may *)
(* meet a storage failure.                                                 *)
(***************************************************************************)
FirstSession == next_id = 0 /\ InitializeSession(StoreFailures)

NextFaulty ==
    \/ FirstSession
    \/ UpdateSessionStatus
    \/ FinalizeSession(TRUE)
    \/ CleanupOldData
    \/ GetUserProfile
    \/ GetPerformanceHistory

SpecFaulty == Init /\ [][NextFaulty]_vars

(***************************************************************************)
(* The specification of the insights: one user practises one session after *)
(* another, each stored when it starts and recorded when it ends with one  *)
(* of a few performance analyses, and insights are read at any time, for   *)
(* this user and for one the store never saw.                              *)
(***************************************************************************)
InsightUser == <<"user", "back-end", 0>>

InsightSessionIds == {SessionId(n) : n \in 1..5}

\* The sessions of the store that were started and not recorded yet.
Started == {session_id \in DOMAIN db.sessions : db.sessions[session_id].status = "initialized"}

\* The session the user starts next, the n-th at time n, if none is running.
InsightSessions ==
    LET n == Cardinality(DOMAIN db.sessions) + 1
    IN IF Started # {} \/ SessionId(n) \notin InsightSessionIds THEN {}
       ELSE {[session_id |-> SessionId(n), status |-> "initialized", created_at |-> n,
              user_profile |-> [user_id |-> InsightUser,
                                experience |-> [field |-> "back-end", years |-> 1,
                                                current_role |-> "Engineer"]]]}

\* Four weak scores; strong and middling scores; a category seen on its own.
InsightAnalyses ==
    {[category_scores |-> << <<"algorithms", 30>>, <<"system_design", 40>>,
                             <<"communication", 20>>, <<"problem_solving", 45>> >>,
      overall_score |-> 35],
     [category_scores |-> << <<"algorithms", 90>>, <<"system_design", 60>>,
                             <<"communication", 80>> >>,
      overall_score |-> 75],
     [category_scores |-> << <<"testing", 75>>, <<"system_design", 55>> >>,
      overall_score |-> 65]}

\* The records of the running session: with one of the analyses, or none.
InsightRecords ==
    UNION {{[session_id |-> session_id, status |-> "completed",
             timestamp |-> db.sessions[session_id].created_at,
             user_profile |-> [user_id |-> InsightUser]]}
           \cup {[session_id |-> session_id, status |-> "completed",
                  timestamp |-> db.sessions[session_id].created_at,
                  user_profile |-> [user_id |-> InsightUser],
                  performance_analysis |-> performance_analysis] :
                     performance_analysis \in InsightAnalyses} :
              session_id \in Started}

\* No more rows than the sessions can give.
InsightRows == Cardinality(InsightSessionIds) * 5

StartPractice == StoreSessionInitializationOf(InsightSessions, {"none"})

RecordPractice == StoreSessionRecordOf(InsightRecords, FALSE, InsightRows)

InsightReaders == {InsightUser, <<"user", "unknown", 0>>}

GetLearningInsights ==
    /\ \E user_id \in InsightReaders, fail \in BOOLEAN :
          ret' = [op |-> "get_learning_insights", arg |-> user_id,
                  value |-> get_learning_insights(db, user_id, fail),
                  raised |-> FALSE, fault |-> fail,
                  stored |-> <<>>, failed |-> <<>>]
    /\ UNCHANGED <<active_sessions, session_history, next_id, db, committed, now>>

GetUserStatistics ==
    /\ \E user_id \in InsightReaders, fail \in BOOLEAN :
          ret' = [op |-> "get_user_statistics", arg |-> user_id,
                  value |-> get_user_statistics(db, user_id, fail),
                  raised |-> FALSE, fault |-> fail,
                  stored |-> <<>>, failed |-> <<>>]
    /\ UNCHANGED <<active_sessions, session_history, next_id, db, committed, now>>

NextInsights ==
    \/ StartPractice
    \/ RecordPractice
    \/ GetLearningInsights
    \/ GetUserStatistics

SpecInsights == Init /\ [][NextInsights]_vars

(***************************************************************************)
(* The specification of the profiles: profiles are stored, with an id of   *)
(* their own or with the one the store gives them, updated and read; the   *)
(* writes may fail.                                                        *)
(***************************************************************************)
ProfileInputs ==
    {[experience |-> [field |-> "back-end", years |-> 1, current_role |-> "Engineer"]],
     [user_id |-> InsightUser,
      experience |-> [field |-> "front-end", years |-> 7, current_role |-> "Lead"]]}

\* The profile is returned as the call leaves it: with its user_id.
PutProfile ==
    /\ \E profile_data \in ProfileInputs, fail \in StoreFailures :
          \E r \in {store_user_profile(db, committed, profile_data, now, fail)} :
             /\ db' = r.db
             /\ committed' = r.committed
             /\ ret' = [op |-> "store_user_profile", arg |-> r.profile_data,
                        value |-> r.ok, raised |-> FALSE, fault |-> fail # "none",
                        stored |-> <<r.ok>>, failed |-> <<fail # "none">>]
    /\ now' = Advance(now)
    /\ UNCHANGED <<active_sessions, session_history, next_id>>

ProfileUpdates ==
    {[experience |-> [field |-> "back-end", years |-> 4, current_role |-> "Staff Engineer"]],
     [preferences |-> [difficulty |-> "advanced"]]}

UpdateUserProfile ==
    /\ \E user_id \in ReadUserIds, updates \in ProfileUpdates,
          fail_get \in BOOLEAN, fail \in {"none", "execute"} :
          \E r \in {update_user_profile(db, committed, user_id, updates, now, fail_get, fail)} :
             /\ db' = r.db
             /\ committed' = r.committed
             /\ ret' = [op |-> "update_user_profile",
                        arg |-> [user_id |-> user_id, updates |-> updates],
                        value |-> r.ok, raised |-> FALSE,
                        fault |-> fail_get \/ fail # "none",
                        stored |-> <<>>, failed |-> <<>>]
    /\ now' = Advance(now)
    /\ UNCHANGED <<active_sessions, session_history, next_id>>

NextProfiles ==
    \/ PutProfile
    \/ UpdateUserProfile
    \/ GetUserProfile

SpecProfiles == Init /\ [][NextProfiles]_vars

(***************************************************************************)
(* The specification of the history: two users start sessions, several may *)
(* run at once and they are recorded in any order, at completion times     *)
(* that may be equal; the history is read at any time, for each user and   *)
(* for one the store never saw, with a limit of one row and with the       *)
(* default limit.                                                          *)
(***************************************************************************)
HistoryUsers == {InsightUser, <<"user", "front-end", 0>>}

HistorySessionIds == {SessionId(n) : n \in 1..3}

\* The session started next, the n-th, by either user.
HistorySessions ==
    LET n == Cardinality(DOMAIN db.sessions) + 1
    IN IF SessionId(n) \notin HistorySessionIds THEN {}
       ELSE {[session_id |-> SessionId(n), status |-> "initialized", created_at |-> 0,
              user_profile |-> [user_id |-> user_id,
                                experience |-> [field |-> user_id[2], years |-> 1,
                                                current_role |-> "Engineer"]]] :
                user_id \in HistoryUsers}

HistoryTimes == {1, 2}

\* The records of the running sessions, without a performance analysis.
HistoryRecords ==
    {[session_id |-> session_id, status |-> "completed", timestamp |-> timestamp,
      user_profile |-> [user_id |-> db.sessions[session_id].user_id]] :
        session_id \in Started, timestamp \in HistoryTimes}

\* One 'overall' row for each session.
HistoryRows == Cardinality(HistorySessionIds)

StartSession == StoreSessionInitializationOf(HistorySessions, {"none"})

CompleteSession == StoreSessionRecordOf(HistoryRecords, FALSE, HistoryRows)

HistoryReaders == HistoryUsers \cup {<<"user", "unknown", 0>>}

HistoryLimits == {1, HistoryLimit}

GetHistory ==
    /\ \E user_id \in HistoryReaders, limit \in HistoryLimits, fail \in BOOLEAN :
          \E r \in {get_performance_history(db, user_id, limit, fail)} :
             ret' = [op |-> "get_performance_history",
                     arg |-> [user_id |-> user_id, limit |-> limit],
                     value |-> r.value, raised |-> r.raised, fault |-> fail,
                     stored |-> <<>>, failed |-> <<>>]
    /\ UNCHANGED <<active_sessions, session_history, next_id, db, committed, now>>

NextHistory ==
    \/ StartSession
    \/ CompleteSession
    \/ GetHistory

SpecHistory == Init /\ [][NextHistory]_vars

(***************************************************************************)
(* The specification of the tables: sessions stored, completed and purged  *)
(* by calls that meet no storage failure.                                  *)
(***************************************************************************)
\* Two sessions: the one a call is about, and another one.
TableSessionIds == {SessionId(1), SessionId(2)}

TableSessions(t) ==
    {[session_id |-> session_id, status |-> "initialized", created_at |-> t,
      user_profile |-> profile_data] :
        session_id \in TableSessionIds, profile_data \in StoreProfiles}

\* Two category scores and an overall score.
PerformanceAnalysis2 ==
    [category_scores |-> << <<"communication", 40>>, <<"coding", 60>> >>,
     overall_score |-> 50]

\* Records with no performance_analysis and no user_profile, with one
\* category score, and with two.
TableRecords(t) ==
    UNION {{[session_id |-> session_id, status |-> "completed", timestamp |-> t],
            [session_id |-> session_id, status |-> "completed", timestamp |-> t,
             user_profile |-> [user_id |-> _generate_user_id(profile_data, 0)],
             performance_analysis |-> PerformanceAnalysis],
            [session_id |-> session_id, status |-> "completed", timestamp |-> t,
             user_profile |-> [user_id |-> _generate_user_id(profile_data, 0)],
             performance_analysis |-> PerformanceAnalysis2]} :
              session_id \in TableSessionIds, profile_data \in StoreProfiles}

PutSessionInit == StoreSessionInitializationOf(TableSessions(now), {"none"})

PutSessionCompleted == StoreSessionRecordOf(TableRecords(now), FALSE, MaxRows)

PurgeOlderThan == CleanupOldDataOf(FALSE)

NextTables ==
    \/ PutSessionInit
    \/ PutSessionCompleted
    \/ PurgeOlderThan

SpecTables == Init /\ [][NextTables]_vars

(***************************************************************************)
(* The specification of the counted insights: the tables are written and   *)
(* purged as under SpecTables, and insights are computed at any time for   *)
(* the users of the session rows and for one the store never saw.          *)
(***************************************************************************)
SessionUsers ==
    {db.sessions[session_id].user_id : session_id \in DOMAIN db.sessions}
       \cup {<<"user", "unknown", 0>>}

ComputeInsights ==
    /\ \E user_id \in SessionUsers, fail \in BOOLEAN :
          ret' = [op |-> "get_learning_insights", arg |-> user_id,
                  value |-> get_learning_insights(db, user_id, fail),
                  raised |-> FALSE, fault |-> fail,
                  stored |-> <<>>, failed |-> <<>>]
    /\ UNCHANGED <<active_sessions, session_history, next_id, db, committed, now>>

NextCounted ==
    \/ PutSessionInit
    \/ PutSessionCompleted
    \/ PurgeOlderThan
    \/ ComputeInsights

SpecCounted == Init /\ [][NextCounted]_vars

(***************************************************************************)
(* Properties of the session lifecycle, checked under Spec.                *)
(***************************************************************************)
HistoryIds == {session_history[i].session_id : i \in DOMAIN session_history}

HasExperience(s) == Has(s.user_profile, "experience")

HasTargetJob(s) == Has(s.user_profile, "target_job")

HasRequirements(s) == Has(s.context_data, "extracted_requirements")

HasPlan(s) == Truthy(s.interview_plan)

\* The session initialize_session has just registered.
JustInitialized == active_sessions[ret.arg]

\* The outputs of the steps before step k, for the inputs inp, are in s.
KeepsOutputsBefore(s, k, inp) ==
    LET full == RunSteps(NewSessionData(s.session_id, s.created_at), inp, 0, s.created_at)
    IN /\ HasExperience(s) = (k > 1)
       /\ HasTargetJob(s) = (k > 2)
       /\ HasRequirements(s) = (k > 3)
       /\ ~HasPlan(s)
       /\ k > 1 => s.user_profile.experience = full.user_profile.experience
       /\ k > 2 => s.user_profile.target_job = full.user_profile.target_job
       /\ k > 3 => s.context_data.extracted_requirements
                      = full.context_data.extracted_requirements

\* C1: initialize_session never raises: whichever of the four steps throws,
\* the call returns the new session id, the session is in the active set with
\* status 'failed' and the error message, and it holds the outputs of the
\* steps that completed before the failure.
C1_InitializeNeverRaises ==
    ret.op = "initialize_session" =>
        /\ ~ret.raised
        /\ ret.value = ret.arg
        /\ ret.arg \in DOMAIN active_sessions
        /\ JustInitialized.session_id = ret.arg
        /\ JustInitialized.status \in {"initialized", "failed"}
        /\ JustInitialized.status = "failed" =>
              /\ Has(JustInitialized, "error")
              /\ \E k \in 1..4, inp \in InitInputs :
                    /\ JustInitialized.error = ErrorMessage(k)
                    /\ KeepsOutputsBefore(JustInitialized, k, inp)

\* Step 3 threw: the session is failed and keeps the experience and the job.
C1_Witness ==
    /\ ret.op = "initialize_session"
    /\ ret.value = SessionId(1)
    /\ JustInitialized.status = "failed"
    /\ JustInitialized.error = ErrorMessage(3)
    /\ HasTargetJob(JustInitialized)
    /\ ~HasRequirements(JustInitialized)

\* The step is the call op(session_id).
Called(op, session_id) == ret'.op = op /\ ret'.arg = session_id

\* C2: finalize_session(id) on an id of the active set removes the entry from
\* the active set, appends that same session to the history exactly once,
\* with status 'completed' and a completion timestamp, and returns it;
\* afterwards get_session_data(id) finds nothing, and finalize_session(id)
\* once more returns an empty result and leaves the history unchanged.
C2_FinalizeMovesToHistory ==
    [][\A id \in SessionIds :
         Called("finalize_session", id) =>
           /\ id \in DOMAIN active_sessions =>
                /\ id \notin DOMAIN active_sessions'
                /\ session_history' = Append(session_history, ret'.value)
                /\ ret'.value =
                     Update(active_sessions[id],
                            [status |-> "completed", completed_at |-> now])
                /\ ret'.value.session_id = id
                /\ get_session_data(active_sessions', id) = EmptyDict
                /\ \A t \in now'..MaxTime :
                     LET again == finalize_session(active_sessions', session_history',
                                                   db', committed', id, t, 0)
                     IN /\ again.value = EmptyDict
                        /\ again.session_history = session_history'
           /\ (id \notin DOMAIN active_sessions /\ id \in HistoryIds) =>
                /\ ret'.value = EmptyDict
                /\ session_history' = session_history
      ]_vars

\* A finalized session has been finalized a second time.
C2_Witness ==
    /\ ret.op = "finalize_session"
    /\ ret.value = EmptyDict
    /\ Len(session_history) = 1
    /\ session_history[1].session_id = ret.arg
    /\ session_history[1].status = "completed"
    /\ Has(session_history[1], "completed_at")

\* C3: after finalize_session of a session that put_session_init persisted,
\* the store holds that session with status 'completed' and a completion
\* time, and get_history returns it for its user.
C3_FinalizePersists ==
    \A i \in DOMAIN session_history :
        LET session_id == session_history[i].session_id
        IN session_id \in DOMAIN db.sessions =>
              /\ db.sessions[session_id].status = "completed"
              /\ db.sessions[session_id].completed_at # NULL
              /\ session_id \in CompletedSessionsOf(db, db.sessions[session_id].user_id)

\* The status of the session with this id, wherever it is held.
StatusOf(session_id) ==
    IF session_id \in DOMAIN active_sessions THEN active_sessions[session_id].status
    ELSE IF session_id \in HistoryIds
         THEN LET i == CHOOSE i \in DOMAIN session_history :
                           session_history[i].session_id = session_id
              IN session_history[i].status
    ELSE "none"

\* C4: status 'failed' is terminal: no later operation changes the status of
\* a failed session, and 'completed' is reached only from 'initialized'.
C4_FailedIsTerminal ==
    [][\A id \in SessionIds :
         /\ StatusOf(id) = "failed" => StatusOf(id)' = "failed"
         /\ (StatusOf(id)' = "completed" /\ StatusOf(id) # "completed")
               => StatusOf(id) = "initialized"
      ]_vars

\* C5: finalize_session on a session id that was never created, or is no
\* longer active, returns an empty result, does not raise, and leaves the
\* active set, the history and every table of the store unchanged.
C5_FinalizeUnknownIsNoOp ==
    [][\A id \in SessionIds :
         (Called("finalize_session", id) /\ id \notin DOMAIN active_sessions) =>
            /\ ret'.value = EmptyDict
            /\ ~ret'.raised
            /\ UNCHANGED <<active_sessions, session_history, db, committed>>
      ]_vars

\* finalize_session has been called before any session was created.
C5_Witness ==
    /\ ret.op = "finalize_session"
    /\ ret.value = EmptyDict
    /\ next_id = 0
    /\ active_sessions = EmptyDict
    /\ session_history = <<>>

C8_StepsInSequence ==
    ret.op = "initialize_session" =>
        /\ HasPlan(JustInitialized) => HasRequirements(JustInitialized)
        /\ HasRequirements(JustInitialized) => HasTargetJob(JustInitialized)
        /\ HasTargetJob(JustInitialized) => HasExperience(JustInitialized)
        /\ JustInitialized.status = "initialized" =>
              /\ HasPlan(JustInitialized)
              /\ HasRequirements(JustInitialized)
              /\ HasTargetJob(JustInitialized)
              /\ HasExperience(JustInitialized)

\* Step 4 threw: the requirements are there and the plan is not.
C8_Witness ==
    /\ ret.op = "initialize_session"
    /\ JustInitialized.status = "failed"
    /\ HasRequirements(JustInitialized)
    /\ ~HasPlan(JustInitialized)

\* C9: when the four steps succeed and the store does not fail,
\* initialize_session leaves the session active with status 'initialized',
\* and the store holds a session row with that id and status 'initialized'
\* whose user_id is the id of a stored profile.
C9_InitializePersists ==
    (ret.op = "initialize_session" /\ ~Has(JustInitialized, "error")) =>
        /\ JustInitialized.status = "initialized"
        /\ ret.arg \in DOMAIN db.sessions
        /\ db.sessions[ret.arg].status = "initialized"
        /\ db.sessions[ret.arg].user_id \in DOMAIN db.user_profiles
        /\ db.sessions[ret.arg].user_id = JustInitialized.user_profile.user_id
        /\ committed = db

\* A session has been initialized and its row and profile are stored.
C9_Witness ==
    /\ ret.op = "initialize_session"
    /\ JustInitialized.status = "initialized"
    /\ ret.arg \in DOMAIN db.sessions
    /\ DOMAIN db.user_profiles # {}

(***************************************************************************)
(* Properties of the Profile Store, checked under SpecStore.               *)
(***************************************************************************)
\* What a reader sees: "connection" is a query on the shared connection,
\* "database" a query after the pending changes were committed or dropped.
View(reader) == IF reader = "connection" THEN db ELSE committed

\* The rows of a view that a store_session_record call for this session
\* writes: the session's row and its performance_metrics rows.
RowsOf(view, session_id) ==
    [session |-> IF session_id \in DOMAIN view.sessions
                 THEN {view.sessions[session_id]} ELSE {},
     metrics |-> {m \in view.performance_metrics : m.session_id = session_id}]

\* C10: store_session_record is atomic: after the call, whether it succeeded
\* or failed part-way, every reader sees either the session-status update
\* and all N+1 performance-metric rows of the call, or none of them.
C10_StoreSessionRecordAtomic ==
    [][ret'.op = "store_session_record" =>
         \A reader \in {"connection", "database"} :
            LET session_record == ret'.arg
                all == AfterStatements(View(reader), session_record,
                                       StatementCount(session_record))
            IN \/ RowsOf(View(reader)', session_record.session_id)
                     = RowsOf(View(reader), session_record.session_id)
               \/ RowsOf(View(reader)', session_record.session_id)
                     = RowsOf(all, session_record.session_id)
      ]_vars

\* The performance_metrics rows a step adds to the connection's view.
AddedMetrics == db'.performance_metrics \ db.performance_metrics

\* C11: a successful store_session_record for a record with N category
\* scores sets the session's row to 'completed' and adds exactly N
\* 'category_score' rows, one per category with that category's score, and
\* exactly one 'overall' row with overall_score, all with the record's
\* session id and user id; no other session's row and no earlier metric
\* row changes.
C11_SessionRecordFanOut ==
    [][(ret'.op = "store_session_record" /\ ret'.value = TRUE) =>
         LET session_record == ret'.arg
             session_id == session_record.session_id
             user_id == Get(Get(session_record, "user_profile", EmptyDict),
                            "user_id", session_id)
             scores == CategoryScores(session_record)
             overall_score == Get(Get(session_record, "performance_analysis", EmptyDict),
                                  "overall_score", 0)
         IN /\ DOMAIN db'.sessions = DOMAIN db.sessions
            /\ session_id \in DOMAIN db.sessions =>
                  /\ db'.sessions[session_id].status = "completed"
                  /\ db'.sessions[session_id].completed_at = session_record.timestamp
            /\ \A other \in DOMAIN db.sessions \ {session_id} :
                  db'.sessions[other] = db.sessions[other]
            /\ db'.user_profiles = db.user_profiles
            /\ db.performance_metrics \subseteq db'.performance_metrics
            /\ Cardinality(AddedMetrics) = Len(scores) + 1
            /\ \A m \in AddedMetrics :
                  /\ m.session_id = session_id
                  /\ m.user_id = user_id
                  /\ m.recorded_at = session_record.timestamp
            /\ \A i \in DOMAIN scores :
                  Cardinality({m \in AddedMetrics :
                                  /\ m.metric_name = "category_score"
                                  /\ m.category = scores[i][1]
                                  /\ m.metric_value = scores[i][2]}) = 1
            /\ Cardinality({m \in AddedMetrics : m.metric_name = "category_score"})
                  = Len(scores)
            /\ Cardinality({m \in AddedMetrics :
                               /\ m.category = "overall"
                               /\ m.metric_name = "session_score"
                               /\ m.metric_value = overall_score}) = 1
            /\ committed' = db'
      ]_vars

\* A record with two category scores was stored for one of two stored
\* sessions: that session is 'completed' with three rows, the other is not.
C11_Witness ==
    /\ ret.op = "store_session_record"
    /\ ret.value = TRUE
    /\ Len(CategoryScores(ret.arg)) = 2
    /\ Cardinality(DOMAIN db.sessions) = 2
    /\ db.sessions[ret.arg.session_id].status = "completed"
    /\ \E other \in DOMAIN db.sessions : db.sessions[other].status = "initialized"
    /\ Cardinality({m \in db.performance_metrics :
                       m.session_id = ret.arg.session_id}) = 3

\* C12: performance records are keyed by (session_id, user_id, category):
\* the performance_metrics table, as queried and as committed, never holds
\* two rows with the same session_id, user_id and category.
C12_MetricKey ==
    \A reader \in {"connection", "database"} :
       \A m1, m2 \in View(reader).performance_metrics :
          (/\ m1.session_id = m2.session_id
           /\ m1.user_id = m2.user_id
           /\ m1.category = m2.category) => m1 = m2

\* C13: every performance_metrics row's session_id is the id of a row of
\* the sessions table.
C13_MetricSessionKey ==
    \A m \in db.performance_metrics : m.session_id \in DOMAIN db.sessions

\* The rows a step removes from the connection's view.
RemovedSessions == DOMAIN db.sessions \ DOMAIN db'.sessions

RemovedMetrics == db.performance_metrics \ db'.performance_metrics

C15_PurgeIdempotent ==
    [][(/\ ret.op = "cleanup_old_data" /\ ~ret.fault
        /\ ret'.op = "cleanup_old_data" /\ ~ret'.fault
        /\ ret'.arg = ret.arg) =>
          /\ ret'.value = 0
          /\ db' = db
          /\ committed' = committed
      ]_vars

\* A purge returned 0 on a store whose metric rows were all purged before.
C15_Witness ==
    /\ ret.op = "cleanup_old_data"
    /\ ~ret.fault
    /\ ret.value = 0
    /\ db.metric_seq > 0
    /\ db.performance_metrics = {}
    /\ committed = db

\* C16: no call of the MemoryBank lets a storage failure out: a writing call
\* that met one returned False, get_user_profile None, get_performance_history
\* the empty list and cleanup_old_data 0; and an initialize_session or
\* finalize_session during which the store failed returned as usual, with
\* the session not marked 'failed'.
C16_StorageFailureContained ==
    /\ ~ret.raised
    /\ Len(ret.failed) = Len(ret.stored)
    /\ \A i \in DOMAIN ret.failed : ret.failed[i] => ret.stored[i] = FALSE
    /\ ret.fault =>
          /\ ret.op = "get_user_profile" => ret.value = EmptyDict
          /\ ret.op = "get_performance_history" => ret.value = <<>>
          /\ ret.op = "cleanup_old_data" => ret.value = 0
          /\ ret.op = "initialize_session" =>
                /\ ret.value = ret.arg
                /\ ret.arg \in DOMAIN active_sessions
                /\ active_sessions[ret.arg].status = "initialized"
                /\ "error" \notin DOMAIN active_sessions[ret.arg]
          /\ ret.op = "finalize_session" =>
                /\ ret.value.status = "completed"
                /\ session_history # <<>>
                /\ session_history[Len(session_history)] = ret.value

\* A session was finalized while the store failed: store_session_record
\* returned False, and the session is completed in the history, its row
\* still 'initialized'.
C16_Witness ==
    /\ ret.op = "finalize_session"
    /\ ret.failed = <<TRUE>>
    /\ ret.stored = <<FALSE>>
    /\ ret.value.status = "completed"
    /\ ret.arg \in DOMAIN committed.sessions
    /\ committed.sessions[ret.arg].status = "initialized"

\* What a session was set up with: its target job, the requirements
\* extracted from it and its interview plan.
SetUp(session_data) ==
    <<Get(session_data.user_profile, "target_job", EmptyDict),
      Get(session_data.context_data, "extracted_requirements", EmptyDict),
      session_data.interview_plan>>

\* C17: once initialize_session has returned, the session's target job,
\* extracted requirements and interview plan never change: every later call
\* leaves them as they were, in the active set and in the record that
\* finalize_session returns.
C17_SetUpImmutable ==
    [][\A session_id \in DOMAIN active_sessions :
          /\ session_id \in DOMAIN active_sessions' =>
                SetUp(active_sessions'[session_id]) = SetUp(active_sessions[session_id])
          /\ (ret'.op = "finalize_session" /\ ret'.arg = session_id) =>
                SetUp(ret'.value) = SetUp(active_sessions[session_id])
      ]_vars

\* The sessions whose four steps succeeded.
Planned ==
    {session_id \in DOMAIN active_sessions :
        active_sessions[session_id].status = "initialized"}

\* The phases of a plan with the given name.
PhasesNamed(interview_plan, phase) ==
    {i \in DOMAIN interview_plan.session_structure :
        interview_plan.session_structure[i].phase = phase}

\* C18: every plan built has an initial difficulty among beginner,
\* intermediate and advanced, and at least one phase, also when the focus
\* areas extracted are only general_technical.
C18_PlanNonEmpty ==
    \A session_id \in Planned :
       LET interview_plan == active_sessions[session_id].interview_plan
       IN /\ interview_plan.adaptive_parameters.initial_difficulty
                \in {"beginner", "intermediate", "advanced"}
          /\ Len(interview_plan.session_structure) >= 1

\* The planned sessions of a senior user (more than 5 years) whose job's
\* complexity level is beginner.
SeniorFacingBeginner ==
    {session_id \in Planned :
        /\ active_sessions[session_id].user_profile.experience.years > 5
        /\ active_sessions[session_id].context_data.extracted_requirements.complexity_level
              = "beginner"}

\* The initial difficulty of a session is that of its plan and of its profile.
StartsAt(session_id, difficulty) ==
    /\ active_sessions[session_id].interview_plan.adaptive_parameters.initial_difficulty
          = difficulty
    /\ active_sessions[session_id].user_profile.difficulty_level = difficulty

\* C19 as stated: a senior user facing a job of complexity 'beginner' starts
\* at 'intermediate'.
C19_SeniorFacingBeginnerIntermediate ==
    \A session_id \in SeniorFacingBeginner : StartsAt(session_id, "intermediate")

\* C19 as amended: a senior user facing a job of complexity 'beginner' starts
\* at 'beginner', not at 'intermediate': a job of complexity 'beginner'
\* yields 'beginner' whatever the user's level.
C19_SeniorFacingBeginnerBeginner ==
    \A session_id \in SeniorFacingBeginner : StartsAt(session_id, "beginner")

\* A user of 6 years was planned a session for a job described as junior.
C19_Witness ==
    \E session_id \in SeniorFacingBeginner :
       /\ active_sessions[session_id].user_profile.experience.experience_level = "senior"
       /\ "junior" \in active_sessions[session_id].user_profile.target_job.description.contains
       /\ StartsAt(session_id, "beginner")

\* The level the job asks for, on the scale junior < mid < senior: the
\* seniority detected in the description handed to the extraction.
JobLevel(session_data) ==
    DetectedSeniority(session_data.user_profile.target_job.description.contains)

\* The higher of two levels of the scale junior < mid < senior.
HigherLevel(user_level, job_level) ==
    IF seniority_levels[job_level] > seniority_levels[user_level]
    THEN job_level ELSE user_level

\* C20: the coding_assessment phase of every plan has the higher of the
\* user's level and the job's level on the scale junior < mid < senior as
\* its difficulty.
C20_CodingGapMatched ==
    \A session_id \in Planned :
       LET session_data == active_sessions[session_id]
           interview_plan == session_data.interview_plan
       IN \A i \in PhasesNamed(interview_plan, "coding_assessment") :
             interview_plan.session_structure[i].difficulty
                = HigherLevel(session_data.user_profile.experience.experience_level,
                              JobLevel(session_data))

\* The difficulty the rule gives to a user of the given years facing a job
\* of the given complexity.
RuledDifficulty(years, job_complexity) ==
    LET senior == years > 5
        junior == years <= 2
    IN CASE senior /\ job_complexity = "advanced" -> "advanced"
         [] ~(senior /\ job_complexity = "advanced")
               /\ (junior \/ job_complexity = "beginner") -> "beginner"
         [] OTHER -> "intermediate"

\* C21: with the user's level bucketed from the years (at most 2 junior, at
\* most 5 mid, else senior), the initial difficulty is advanced exactly for a
\* senior user and an advanced job, else beginner for a junior user or a
\* beginner job, else intermediate; and user_profile.difficulty_level equals
\* the plan's adaptive_parameters.initial_difficulty.
C21_InitialDifficultyRule ==
    \A session_id \in Planned :
       LET session_data == active_sessions[session_id]
           years == session_data.user_profile.experience.years
           job_complexity == session_data.context_data.extracted_requirements.complexity_level
           initial_difficulty ==
               session_data.interview_plan.adaptive_parameters.initial_difficulty
       IN /\ session_data.user_profile.experience.experience_level
                = (IF years <= 2 THEN "junior" ELSE IF years <= 5 THEN "mid" ELSE "senior")
          /\ initial_difficulty = RuledDifficulty(years, job_complexity)
          /\ session_data.user_profile.difficulty_level = initial_difficulty

\* A user of 5 years, still mid, was planned a session for an advanced job
\* and starts at intermediate.
C21_Witness ==
    \E session_id \in Planned :
       /\ active_sessions[session_id].user_profile.experience.years = 5
       /\ active_sessions[session_id].context_data.extracted_requirements.complexity_level
             = "advanced"
       /\ StartsAt(session_id, "intermediate")

\* C22: the experience data maps every prompted skill to the rating from 1
\* to 5 typed for it, and to 3 when the entry was left blank, so that the
\* confidence score is the mean of those ratings divided by 5.
C22_RatingsKept ==
    ret.op = "_gather_experience_assessment" =>
       LET skill_areas == _get_skill_areas_for_field(ret.arg.field)
           rating(i) == IF ret.arg.entries[i] = 0 THEN 3 ELSE ret.arg.entries[i]
           self_assessment == ret.value.experience_data.self_assessment
           confidence == ret.value.self_assessed_confidence
       IN /\ \A i \in 1..5 :
                /\ skill_areas[i] \in DOMAIN self_assessment
                /\ self_assessment[skill_areas[i]] = rating(i)
          /\ confidence.num * (5 * 5)
                = SumSeq([i \in 1..5 |-> rating(i)]) * confidence.den

\* The category_score rows of a user in the store, and those of a category.
ScoreRows(user_id) ==
    {m \in db.performance_metrics :
        m.user_id = user_id /\ m.metric_name = "category_score"}

ScoreRowsOf(user_id, category) == {m \in ScoreRows(user_id) : m.category = category}

\* The last call returned the insights of a user, computed without failure.
InsightsReturned == ret.op = "get_learning_insights" /\ ~ret.fault

\* C23: every category of the user's category_score rows is in strong_areas
\* exactly when its average is at least 0.7 and in improvement_areas exactly
\* when its average is below 0.5; no category is in both.
C23_AreasByAverage ==
    InsightsReturned =>
       \A category \in {m.category : m \in ScoreRows(ret.arg)} :
          LET rows == ScoreRowsOf(ret.arg, category)
              strong == category \in Range(ret.value.strong_areas)
              improvement == category \in Range(ret.value.improvement_areas)
          IN /\ strong <=> SumOf(rows) >= 70 * Cardinality(rows)
             /\ improvement <=> SumOf(rows) < 50 * Cardinality(rows)
             /\ ~(strong /\ improvement)

\* The label of a change of score.
TrendLabel(change) ==
    IF change > 10 THEN "improving" ELSE IF change < -10 THEN "declining" ELSE "stable"

\* C24: a category has a trend entry exactly when it has at least 2
\* category_score rows; the entry's current_score is the score recorded last
\* and its label that of the change from the score recorded first to it.
C24_TrendOfCategory ==
    InsightsReturned =>
       \A category \in {m.category : m \in ScoreRows(ret.arg)} :
          LET rows == ScoreRowsOf(ret.arg, category)
              trends == ret.value.performance_trends
          IN /\ category \in DOMAIN trends <=> Cardinality(rows) >= 2
             /\ category \in DOMAIN trends =>
                   \E first \in rows, last \in rows :
                      /\ \A m \in rows : first.recorded_at <= m.recorded_at
                      /\ \A m \in rows : m.recorded_at <= last.recorded_at
                      /\ trends[category].current_score = last.metric_value
                      /\ trends[category].trend
                            = TrendLabel(last.metric_value - first.metric_value)
                      /\ trends[category].sessions_tracked = Cardinality(rows)

\* system_design scored 0.4, 0.4 and 0.6 is improving, and problem_solving
\* scored 0.45 twice is stable.
C24_Witness ==
    /\ InsightsReturned
    /\ Has(ret.value.performance_trends, "system_design")
    /\ ret.value.performance_trends["system_design"].sessions_tracked = 3
    /\ ret.value.performance_trends["system_design"].current_score = 60
    /\ ret.value.performance_trends["system_design"].trend = "improving"
    /\ Has(ret.value.performance_trends, "problem_solving")
    /\ ret.value.performance_trends["problem_solving"].sessions_tracked = 2
    /\ ret.value.performance_trends["problem_solving"].trend = "stable"

\* The completed sessions of a user in the store.
CompletedCount(user_id) ==
    Cardinality({session_id \in DOMAIN db.sessions :
                    /\ db.sessions[session_id].user_id = user_id
                    /\ db.sessions[session_id].status = "completed"})

\* C25: for a user with a category_score row the recommendations are, in
\* this order: 'focus on improving' for each of the first 3 improvement
\* areas; a tip by the number of completed sessions ('build momentum' below
\* 3, 'advanced difficulty' from 5, none for 3 and 4); 'leverage your
\* strength' in the first strong area, if any; and the generic fallback alone
\* exactly when there is nothing else.  The list has 1 to 5 entries.
C25_RecommendationsInOrder ==
    (InsightsReturned /\ ScoreRows(ret.arg) # {}) =>
       LET improvement_areas == ret.value.improvement_areas
           strong_areas == ret.value.strong_areas
           completed == CompletedCount(ret.arg)
           focus == [i \in 1..(IF Len(improvement_areas) < 3 THEN Len(improvement_areas) ELSE 3)
                       |-> <<"Focus on improving", Spaced(improvement_areas[i])>>]
           tip == CASE completed < 3 -> << <<"build momentum">> >>
                    [] completed >= 5 -> << <<"advanced difficulty">> >>
                    [] OTHER -> <<>>
           leverage == IF strong_areas = <<>> THEN <<>>
                       ELSE << <<"Leverage your strength in", Spaced(strong_areas[1])>> >>
           produced == focus \o tip \o leverage
       IN /\ ret.value.recommendations
                = (IF produced = <<>> THEN << <<"Continue regular practice">> >> ELSE produced)
          /\ Len(ret.value.recommendations) \in 1..5

\* After 5 sessions a user with 4 improvement areas and a strong area got 5
\* recommendations: 3 to focus, the advanced tip and the strength.
C25_Witness ==
    /\ InsightsReturned
    /\ Len(ret.value.improvement_areas) = 4
    /\ ret.value.strong_areas = <<"testing">>
    /\ ret.value.total_sessions = 5
    /\ Len(ret.value.recommendations) = 5
    /\ ret.value.recommendations[2] = <<"Focus on improving", "system design">>
    /\ ret.value.recommendations[4] = <<"advanced difficulty">>

\* C26: get_learning_insights for a user with no performance-metric rows
\* returns, without raising, the default insights: total_sessions 0 and
\* empty performance_trends, strong_areas, improvement_areas and
\* recommendations; and the store is as it was.
C26_DefaultInsights ==
    [][(/\ ret'.op = "get_learning_insights"
        /\ ~ret'.fault
        /\ \A m \in db.performance_metrics : m.user_id # ret'.arg) =>
          /\ ~ret'.raised
          /\ ret'.value.user_id = ret'.arg
          /\ ret'.value.total_sessions = 0
          /\ ret'.value.performance_trends = EmptyDict
          /\ ret'.value.strong_areas = <<>>
          /\ ret'.value.improvement_areas = <<>>
          /\ ret'.value.recommendations = <<>>
          /\ db' = db
          /\ committed' = committed
      ]_vars

\* The insights of a user whose first session is running, asked while the
\* store holds no row of performance_metrics for them: the default ones.
C26_Witness ==
    /\ InsightsReturned
    /\ ret.arg = InsightUser
    /\ Started # {}
    /\ ScoreRows(ret.arg) = {}
    /\ ret.value.total_sessions = 0
    /\ ret.value.recommendations = <<>>

\* The session rows of a user in the store.
SessionRows(user_id) ==
    {session_id \in DOMAIN db.sessions : db.sessions[session_id].user_id = user_id}

\* C27: for every user id, also one with no session, get_user_statistics
\* reports total_sessions and completed_sessions as non-negative integers,
\* the numbers of the user's session rows and of the completed ones, with
\* completed_sessions <= total_sessions.
C27_SessionCounts ==
    (ret.op = "get_user_statistics" /\ ~ret.fault) =>
       /\ ret.value.total_sessions \in Nat
       /\ ret.value.completed_sessions \in Nat
       /\ ret.value.total_sessions = Cardinality(SessionRows(ret.arg))
       /\ ret.value.completed_sessions = CompletedCount(ret.arg)
       /\ ret.value.completed_sessions <= ret.value.total_sessions

\* C28: a profile stored and then read has the experience years, field and
\* current_role that were stored; update_user_profile stamps the row with
\* the time of the call, not earlier than the stamp it had, and a read that
\* follows returns the updated fields and that stamp; for an unknown user id
\* update_user_profile returns False and no profile appears.
C28_ProfileRoundTrip ==
    [][/\ (/\ ret.op = "store_user_profile" /\ ret.value
           /\ ret'.op = "get_user_profile" /\ ~ret'.fault
           /\ ret'.arg = ret.arg.user_id) =>
             /\ ret'.value.experience.years = ret.arg.experience.years
             /\ ret'.value.experience.field = ret.arg.experience.field
             /\ ret'.value.experience.current_role = ret.arg.experience.current_role
       /\ ret'.op = "update_user_profile" =>
             IF ret'.arg.user_id \in DOMAIN db.user_profiles
             THEN ret'.value =>
                     /\ db'.user_profiles[ret'.arg.user_id].last_updated = now
                     /\ db'.user_profiles[ret'.arg.user_id].last_updated
                           >= db.user_profiles[ret'.arg.user_id].last_updated
             ELSE /\ ret'.value = FALSE
                  /\ db'.user_profiles = db.user_profiles
       /\ (/\ ret.op = "update_user_profile" /\ ret.value
           /\ ret'.op = "get_user_profile" /\ ~ret'.fault
           /\ ret'.arg = ret.arg.user_id) =>
             /\ \A k \in DOMAIN ret.arg.updates :
                   Has(ret'.value, k) /\ ret'.value[k] = ret.arg.updates[k]
             /\ ret'.value.db_metadata.last_updated
                   = db.user_profiles[ret'.arg].last_updated
      ]_vars

\* A profile read after an update has the updated experience and a stamp
\* later than its creation.
C28_Witness ==
    /\ ret.op = "get_user_profile"
    /\ ~ret.fault
    /\ Has(ret.value, "experience")
    /\ ret.value.experience.years = 4
    /\ ret.value.experience.current_role = "Staff Engineer"
    /\ ret.value.db_metadata.last_updated > ret.value.db_metadata.created_at

\* C29: every profile row has last_updated >= created_at; no call removes a
\* profile row or changes its created_at; store_user_profile with the
\* user_id of a row leaves the rows' ids as they are, and with a new user_id
\* adds exactly the row of that id.  (One row per user_id: the rows are keyed
\* by user_id, the table's PRIMARY KEY.)
C29_ProfileRows ==
    [][/\ \A user_id \in DOMAIN db'.user_profiles :
             db'.user_profiles[user_id].last_updated >= db'.user_profiles[user_id].created_at
       /\ \A user_id \in DOMAIN db.user_profiles :
             /\ user_id \in DOMAIN db'.user_profiles
             /\ db'.user_profiles[user_id].created_at = db.user_profiles[user_id].created_at
       /\ (ret'.op = "store_user_profile" /\ ret'.value) =>
             /\ ret'.arg.user_id \in DOMAIN db'.user_profiles
             /\ DOMAIN db'.user_profiles = DOMAIN db.user_profiles \cup {ret'.arg.user_id}
             /\ db'.user_profiles[ret'.arg.user_id].last_updated = now
      ]_vars

\* A profile stored a second time under its user_id: one row, created at
\* the first store and updated at the second.
C29_Witness ==
    /\ ret.op = "store_user_profile"
    /\ ret.value
    /\ ret.arg.user_id = InsightUser
    /\ Cardinality(DOMAIN db.user_profiles) = 1
    /\ db.user_profiles[InsightUser].created_at < db.user_profiles[InsightUser].last_updated

\* The completed session rows of a user in the store.
CompletedRows(user_id) ==
    {session_id \in DOMAIN db.sessions :
        /\ db.sessions[session_id].user_id = user_id
        /\ db.sessions[session_id].status = "completed"}

\* C30: get_performance_history(user_id, limit) returns only sessions of
\* that user whose stored status is 'completed', each once and at most limit
\* of them -- all of them if there are no more than limit, unless the query
\* failed --, ordered by completion time newest first, the ones left out
\* being no newer than the ones returned; a session that is initialized and
\* not finished is never returned.
C30_HistoryOfUser ==
    ret.op = "get_performance_history" =>
        LET user_id == ret.arg.user_id
            limit == ret.arg.limit
            history == ret.value
            returned == {history[i].session_id : i \in DOMAIN history}
            completed_at(session_id) == db.sessions[session_id].completed_at
        IN /\ returned \subseteq CompletedRows(user_id)
           /\ returned \cap Started = {}
           /\ \A i \in DOMAIN history : history[i].status = "completed"
           /\ Cardinality(returned) = Len(history)
           /\ Len(history) <= limit
           /\ ~ret.fault =>
                 Len(history) = IF Cardinality(CompletedRows(user_id)) < limit
                                THEN Cardinality(CompletedRows(user_id)) ELSE limit
           /\ \A i, j \in DOMAIN history :
                 i < j => completed_at(history[i].session_id)
                             >= completed_at(history[j].session_id)
           /\ \A session_id \in CompletedRows(user_id) \ returned :
                 \A other \in returned : completed_at(session_id) <= completed_at(other)

\* The user finished the first session after the second, another session is
\* still running, and a history of one row is the first session.
C30_Witness ==
    /\ ret.op = "get_performance_history"
    /\ ret.arg = [user_id |-> InsightUser, limit |-> 1]
    /\ {SessionId(1), SessionId(2)} \subseteq CompletedRows(InsightUser)
    /\ db.sessions[SessionId(1)].completed_at > db.sessions[SessionId(2)].completed_at
    /\ Started # {}
    /\ Len(ret.value) = 1
    /\ ret.value[1].session_id = SessionId(1)

\* C31: whenever the extraction has a non-empty technology_stack, also for
\* the blank description, required_technical_skills followed by
\* preferred_skills is technology_stack, required_technical_skills has at
\* most 6 entries and preferred_skills has entries only when technology_stack
\* has more than 6.
C31_RequiredThenPreferred ==
    ret.op = "_perform_context_engineering" =>
       LET extraction_results == ret.value.extraction_results
       IN extraction_results.technology_stack # <<>> =>
             /\ extraction_results.required_technical_skills
                   \o extraction_results.preferred_skills
                      = extraction_results.technology_stack
             /\ Len(extraction_results.required_technical_skills) <= 6
             /\ extraction_results.preferred_skills # <<>>
                   => Len(extraction_results.technology_stack) > 6

\* The phase names in the order the plans are built in.
PhaseOrder == <<"coding_assessment", "system_design", "technical_concepts", "behavioral">>

\* C32: the phases of a plan are, in the order coding_assessment,
\* system_design, technical_concepts, behavioral and each at most once:
\* coding_assessment iff coding_problems is a focus area, system_design iff
\* system_design is (25 minutes, 1 question), technical_concepts iff
\* technical_knowledge is (15 minutes, 3 questions), behavioral iff
\* behavioral_leadership is a focus area or the user's level is mid or senior
\* (10 minutes, 2 questions); estimated_duration is the sum of the phases'
\* durations.
C32_PhasesInOrder ==
    \A session_id \in Planned :
       LET session_data == active_sessions[session_id]
           focus == Range(session_data.context_data.extracted_requirements.interview_focus_areas)
           user_level == session_data.user_profile.experience.experience_level
           phases == session_data.interview_plan.session_structure
           included(phase) ==
               CASE phase = "coding_assessment" -> "coding_problems" \in focus
                 [] phase = "system_design" -> "system_design" \in focus
                 [] phase = "technical_concepts" -> "technical_knowledge" \in focus
                 [] phase = "behavioral" ->
                        "behavioral_leadership" \in focus \/ user_level \in {"mid", "senior"}
           size == [system_design |-> <<25, 1>>, technical_concepts |-> <<15, 3>>,
                    behavioral |-> <<10, 2>>]
       IN /\ [i \in DOMAIN phases |-> phases[i].phase] = SelectSeq(PhaseOrder, included)
          /\ \A i \in DOMAIN phases :
                phases[i].phase \in DOMAIN size =>
                   <<phases[i].duration_minutes, phases[i].question_count>>
                      = size[phases[i].phase]
          /\ session_data.interview_plan.estimated_duration
                = SumSeq([i \in DOMAIN phases |-> phases[i].duration_minutes])

\* A junior user was planned the technical phase alone, 15 minutes, and
\* therefore without a behavioral phase.
C32_Witness ==
    \E session_id \in Planned :
       LET session_data == active_sessions[session_id]
       IN /\ session_data.user_profile.experience.experience_level = "junior"
          /\ Len(session_data.interview_plan.session_structure) = 1
          /\ session_data.interview_plan.session_structure[1].phase = "technical_concepts"
          /\ session_data.interview_plan.estimated_duration = 15

\* The call extracted the requirements of a description that is not blank.
Extracted == ret.op = "_perform_context_engineering" /\ ~ret.arg.blank

\* The description of the call holds one of these keywords.
Holds(keywords) == \E i \in DOMAIN keywords : keywords[i] \in ret.arg.contains

\* The level the wording of the call's description stands for: the first of
\* senior, mid, junior with an indicator in it, mid when there is none.
WordedLevel ==
    IF Holds(seniority_indicators[1].indicators) THEN "senior"
    ELSE IF Holds(seniority_indicators[2].indicators) THEN "mid"
    ELSE IF Holds(seniority_indicators[3].indicators) THEN "junior"
    ELSE "mid"

\* The responsibility categories with a keyword in the call's description.
MatchedCategories ==
    {responsibility_keywords[i].category :
        i \in {j \in DOMAIN responsibility_keywords : Holds(responsibility_keywords[j].keywords)}}

\* C33: for a description that is not blank, complexity_level is advanced
\* exactly when the detected seniority is senior or all four responsibility
\* categories matched, else beginner exactly when the detected seniority is
\* junior, else intermediate.
C33_ComplexityLevel ==
    Extracted =>
       /\ ret.value.detected_seniority = WordedLevel
       /\ Range(ret.value.extraction_results.responsibility_categories) = MatchedCategories
       /\ ret.value.extraction_results.complexity_level
             = (IF WordedLevel = "senior" \/ Cardinality(MatchedCategories) = 4
                THEN "advanced"
                ELSE IF WordedLevel = "junior" THEN "beginner"
                ELSE "intermediate")

\* A description worded junior that matches all four responsibility
\* categories is advanced.
C33_Witness ==
    /\ Extracted
    /\ ret.value.detected_seniority = "junior"
    /\ Len(ret.value.extraction_results.responsibility_categories) = 4
    /\ ret.value.extraction_results.complexity_level = "advanced"

\* C34: for a description that is not blank, interview_focus_areas is never
\* empty and is, in this order, technical_knowledge iff the technology stack
\* is non-empty, coding_problems iff the coding responsibility matched,
\* system_design iff that responsibility matched, behavioral_leadership iff
\* the leadership responsibility matched; it is <<general_technical>> exactly
\* when none applies, and general_technical never comes with another area.
C34_FocusAreas ==
    Extracted =>
       LET extraction_results == ret.value.extraction_results
           focus_areas == extraction_results.interview_focus_areas
           applies(area) ==
               CASE area = "technical_knowledge" -> extraction_results.technology_stack # <<>>
                 [] area = "coding_problems" -> "coding" \in MatchedCategories
                 [] area = "system_design" -> "system_design" \in MatchedCategories
                 [] area = "behavioral_leadership" -> "leadership" \in MatchedCategories
           derived == SelectSeq(<<"technical_knowledge", "coding_problems", "system_design",
                                  "behavioral_leadership">>, applies)
       IN /\ focus_areas # <<>>
          /\ (extraction_results.technology_stack # <<>>)
                <=> \E keywords \in Range(technical_keywords) : Holds(keywords)
          /\ derived # <<>> => focus_areas = derived
          /\ (focus_areas = <<"general_technical">>) <=> (derived = <<>>)
          /\ "general_technical" \in Range(focus_areas) => Len(focus_areas) = 1

\* A description with technologies and no responsibility has the technical
\* focus alone.
C34_Witness ==
    /\ Extracted
    /\ ret.value.extraction_results.technology_stack # <<>>
    /\ ret.value.extraction_results.responsibility_categories = <<>>
    /\ ret.value.extraction_results.interview_focus_areas = <<"technical_knowledge">>

\* C35: the senior, mid and junior indicator groups are tested in that order
\* and the first with an indicator in the description wins (a description
\* with both 'senior' and 'junior' is senior); the level is mid when no group
\* matches; the recorded seniority indicators are exactly the indicators of
\* the winning group found in the description, each once, and none of
\* another group.
C35_SeniorityByPriority ==
    Extracted =>
       LET recorded == ret.value.extraction_results.seniority_indicators
           matching == {i \in DOMAIN seniority_indicators :
                           Holds(seniority_indicators[i].indicators)}
       IN IF matching = {}
          THEN ret.value.detected_seniority = "mid" /\ recorded = <<>>
          ELSE \E i \in matching :
                  /\ \A j \in matching : i <= j
                  /\ seniority_indicators[1].level = "senior"
                  /\ seniority_indicators[2].level = "mid"
                  /\ seniority_indicators[3].level = "junior"
                  /\ ret.value.detected_seniority = seniority_indicators[i].level
                  /\ Range(recorded) = Range(seniority_indicators[i].indicators)
                                          \cap ret.arg.contains
                  /\ Cardinality(Range(recorded)) = Len(recorded)
                  /\ \A j \in DOMAIN seniority_indicators \ {i} :
                        Range(recorded) \cap Range(seniority_indicators[j].indicators) = {}

\* A description with 'senior', 'mid-level' and 'junior' is senior and only
\* 'senior' is recorded.
C35_Witness ==
    /\ Extracted
    /\ {"senior", "mid-level", "junior"} \subseteq ret.arg.contains
    /\ ret.value.detected_seniority = "senior"
    /\ ret.value.extraction_results.seniority_indicators = <<"senior">>

\* C36: execute rejects, without running it, every submission in an
\* available language that contains a denylisted substring -- for Python the
\* base patterns, for Java also Runtime.getRuntime, ProcessBuilder,
\* System.exit, File(, FileWriter and FileReader --: it returns success =
\* false with a non-empty security_violations list and starts no subprocess.
C36_DenylistRejects ==
    (/\ ret.op = "execute"
     /\ ret.arg.language \in ret.arg.self.available_languages
     /\ ret.arg.code \cap
           (Range(base_patterns)
            \cup (IF ret.arg.language = "java" THEN Range(java_patterns) ELSE {})) # {}) =>
       /\ ret.value.result.success = FALSE
       /\ Get(ret.value.result, "security_violations", <<>>) # <<>>
       /\ ret.value.subprocesses = <<>>

\* C37: store_session_initialization is atomic per call: when it returns
\* False, for instance because a session row with that session id exists,
\* the store is as it was before the call: no profile row was inserted or
\* updated and no session row was added.
C37_SessionInitAtomic ==
    [][(ret'.op = "store_session_initialization" /\ ret'.value = FALSE) =>
          /\ db'.user_profiles = db.user_profiles
          /\ db'.sessions = db.sessions
          /\ committed' = committed
      ]_vars

\* C38: after any sequence of store_session_initialization,
\* store_session_record and cleanup_old_data calls, the total_sessions of the
\* insights computed for a user is the number of that user's session rows
\* with status 'completed', also when the user has no category_score rows.
C38_TotalSessionsCounted ==
    (ret.op = "get_learning_insights" /\ ~ret.fault) =>
       ret.value.total_sessions = CompletedCount(ret.arg)

\* C39: in every state reached through initialize_session,
\* update_session_status, record_agent_interaction and finalize_session,
\* every session of the active set has status 'initialized' or 'failed' and
\* is held under the key equal to its session_id, and every session of the
\* history has status 'completed'.
C39_StatusByContainer ==
    /\ \A session_id \in DOMAIN active_sessions :
          /\ active_sessions[session_id].status \in {"initialized", "failed"}
          /\ active_sessions[session_id].session_id = session_id
    /\ \A i \in DOMAIN session_history : session_history[i].status = "completed"

\* An event of the author among these events carries the signal.
Carries(events, author, signal) ==
    \E i \in DOMAIN events :
       /\ events[i].author = author
       /\ \E k \in DOMAIN events[i].parts : signal \in events[i].parts[k].text

\* The place of a sub-agent in the order of the stages.
Stage(agent) ==
    CASE agent = "SessionInitializer" -> 1
      [] agent = "InterviewConductor" -> 2
      [] agent = "FeedbackAnalyzer" -> 3

====
